---- MODULE Spec2Model ----
(***************************************************************************)
(* Native messaging host of schmipper (native-host/src: index.ts and       *)
(* messaging.ts): the stdin framer, the message validator and the          *)
(* request dispatcher (validateAndRespond), as one state machine.          *)
(*                                                                         *)
(* JSON texts are abstracted to one byte per token: '{' fields '}' where   *)
(* every field (name and value) is one byte of TOKENS.  Everything else    *)
(* about the wire format (4-byte little-endian length, payload bytes,      *)
(* chunking) is byte for byte.  Date.now() timestamps are left out.        *)
(*                                                                         *)
(* With it, the browser extension (extension/src): a VolumeModeController  *)
(* (volume-modes.ts) as the popup drives it, and the background script's   *)
(* registry of audio sources (background.ts) with the messages, tab        *)
(* events and volume shortcuts that change it.  The registry holds         *)
(* references to AudioSource objects, as the Map of the code does, so      *)
(* that a shortcut's snapshot and the registry share the objects.          *)
(*                                                                         *)
(* The extension's ErrorHandler (error-handler.ts) is there with its error *)
(* history and one retry call at a time, and the TabManager of the same    *)
(* file with its clock and its periodic cleanup.  The background script's  *)
(* own VolumeModeController and mode variable come with the messages and   *)
(* shortcuts that use them, and the popup (popup.ts) with the updates of   *)
(* the audio sources it is sent.  The ShortcutsManager (shortcuts.ts) is   *)
(* there from its construction on, with the commands the background hands  *)
(* it.                                                                     *)
(*                                                                         *)
(* The host, the validator taken alone, the controller, the background     *)
(* script and the error handler each have a specification of their own     *)
(* over the same variables; the steps of one leave the variables of the    *)
(* others unchanged.                                                       *)
(***************************************************************************)
EXTENDS Integers, Sequences, FiniteSets, TLC

(* ------------------------------ bounds ------------------------------- *)
\* frames (or, inside an oversized frame, payload pieces) the peer writes
MaxFrames == 2
\* exceptions thrown inside processIncomingData's try block
MaxThrows == 1
\* sources a VolumeModeController is given (and the tab ids they have)
MaxSources == 2
\* calls made on a VolumeModeController after its sources were added
MaxOps == 2
\* messages and browser events the background script receives
MaxEvents == 5
\* errors an ErrorHandler is given to handle (more than its history keeps)
MaxHandled == 52
\* times the clock of the TabManager is advanced
MaxTicks == 3
\* keyboard commands delivered to the background
MaxCommands == 2

(* ------------------------- program constants ------------------------- *)
maxMessageSize == 1048576
defaultTimeout == 5000
maxErrorHistory == 50
CLEANUP_INTERVAL == 30000
MAX_INACTIVE_TIME == 60000

(* ------------------------------ values ------------------------------- *)
\* A JSON / JavaScript value: its typeof tag and its number or string.
Num(n) == [t |-> "number", n |-> n, s |-> ""]
Str(s) == [t |-> "string", n |-> 0, s |-> s]
Bool(b) == [t |-> "boolean", n |-> IF b THEN 1 ELSE 0, s |-> ""]
Undef == [t |-> "undefined", n |-> 0, s |-> ""]

\* ToBoolean of a value, as `!x` and `x || y` use it
Truthy(v) ==
    \/ v.t = "number" /\ v.n # 0
    \/ v.t = "string" /\ v.s # ""
    \/ v.t = "boolean" /\ v.n = 1

\* String.prototype.trim() === '' for the strings of the model
IsBlank(s) == s \in {"", " "}

FieldNames == {"action", "id", "sourceId", "tabId", "volume", "muted", "timeout", "mode"}

EmptyObject == [f \in FieldNames |-> Undef]

\* Buffer.slice(n) and Buffer.slice(0, n): an end past the buffer is clamped
Drop(s, n) == SubSeq(s, n + 1, Len(s))
Take(s, n) == SubSeq(s, 1, IF n < Len(s) THEN n ELSE Len(s))

(* --------------------------- wire format ----------------------------- *)
\* lengthBuffer.writeUInt32LE(n, 0)
writeUInt32LE(n) ==
    << n % 256, (n \div 256) % 256, (n \div 65536) % 256, (n \div 16777216) % 256 >>

\* (mutant) the length read big-endian
readUInt32BE(buf) ==
    16777216 * buf[1] + 65536 * buf[2] + 256 * buf[3] + buf[4]

\* messageBuffer.readUInt32LE(0)
readUInt32LE(buf) ==
    buf[1] + 256 * buf[2] + 65536 * buf[3] + 16777216 * buf[4]

\* The bytes of one frame: the length prefix, then the payload
\* (sendResponse / sendMessage write both).
EncodeFrame(payload) == writeUInt32LE(Len(payload)) \o payload

(* ------------------------ JSON (token level) ------------------------- *)
LBRACE == 123
RBRACE == 125
DIGIT1 == 49

\* One byte per JSON member: the member's name and its value.
TOKENS ==
    (1 :> [k |-> "action", v |-> Str("getAudioSources")]) @@
    (2 :> [k |-> "action", v |-> Str("setTabVolume")]) @@
    (3 :> [k |-> "action", v |-> Str("getVolume")]) @@
    (4 :> [k |-> "action", v |-> Str("setMute")]) @@
    (5 :> [k |-> "action", v |-> Str("getBrowserProcesses")]) @@
    (6 :> [k |-> "action", v |-> Str("setVolume")]) @@
    (7 :> [k |-> "action", v |-> Str("setMode")]) @@
    (10 :> [k |-> "id", v |-> Str("a")]) @@
    (11 :> [k |-> "id", v |-> Str("b")]) @@
    (20 :> [k |-> "sourceId", v |-> Str("t1")]) @@
    (21 :> [k |-> "sourceId", v |-> Str(" ")]) @@
    (22 :> [k |-> "sourceId", v |-> Num(7)]) @@
    (23 :> [k |-> "sourceId", v |-> Str("")]) @@
    (30 :> [k |-> "volume", v |-> Num(50)]) @@
    (31 :> [k |-> "volume", v |-> Num(150)]) @@
    (32 :> [k |-> "volume", v |-> Str("50")]) @@
    (33 :> [k |-> "volume", v |-> Num(0)]) @@
    (34 :> [k |-> "volume", v |-> Num(100)]) @@
    (35 :> [k |-> "volume", v |-> Num(-1)]) @@
    (40 :> [k |-> "muted", v |-> Bool(TRUE)]) @@
    (41 :> [k |-> "muted", v |-> Str("yes")]) @@
    (42 :> [k |-> "muted", v |-> Bool(FALSE)]) @@
    (50 :> [k |-> "timeout", v |-> Num(0)]) @@
    (51 :> [k |-> "timeout", v |-> Num(100)]) @@
    (60 :> [k |-> "mode", v |-> Str("linked")])

\* The object a member list denotes: a later member overrides an earlier one.
RECURSIVE Members(_, _)
Members(obj, toks) ==
    IF toks = << >> THEN obj
    ELSE Members([obj EXCEPT ![TOKENS[Head(toks)].k] = TOKENS[Head(toks)].v], Tail(toks))

\* JSON.parse(messageData.toString('utf8')): an object, a primitive, or a
\* SyntaxError.
ParseJSON(bytes) ==
    IF bytes = << DIGIT1 >> THEN [kind |-> "primitive", obj |-> EmptyObject]
    ELSE IF /\ Len(bytes) >= 2
            /\ bytes[1] = LBRACE
            /\ bytes[Len(bytes)] = RBRACE
            /\ \A i \in 2..(Len(bytes) - 1) : bytes[i] \in DOMAIN TOKENS
         THEN [kind |-> "object",
               obj |-> Members(EmptyObject, SubSeq(bytes, 2, Len(bytes) - 1))]
         ELSE [kind |-> "SyntaxError", obj |-> EmptyObject]

(* ---------------------------- validation ----------------------------- *)
\* MESSAGE_SCHEMAS: the actions with a schema, and the fields each requires
SchemaActions ==
    {"getAudioSources", "setTabVolume", "getVolume", "setMute", "getBrowserProcesses"}

SchemaRequired(action) ==
    CASE action = "setTabVolume" -> << "sourceId", "volume" >>
      [] action = "getVolume" -> << "sourceId" >>
      [] action = "setMute" -> << "sourceId", "muted" >>
      [] OTHER -> << >>

\* The first required field that is missing, "" when none is
RECURSIVE FirstMissing(_, _)
FirstMissing(message, required) ==
    IF required = << >> THEN ""
    ELSE IF message[Head(required)] = Undef THEN Head(required)
    ELSE FirstMissing(message, Tail(required))

\* (mutant) the volume check without its upper limit
validateRequestNoCeiling(message) ==
    IF ~Truthy(message.action) THEN "Missing required field: action"
    ELSE IF ~(message.action.t = "string" /\ message.action.s \in SchemaActions)
    THEN "Unknown action"
    ELSE IF FirstMissing(message, SchemaRequired(message.action.s)) # ""
    THEN "Missing required field"
    ELSE IF /\ message.volume # Undef
            /\ (message.volume.t # "number" \/ message.volume.n < 0)
    THEN "Volume must be a number between 0 and 100"
    ELSE IF message.muted # Undef /\ message.muted.t # "boolean"
    THEN "Muted must be a boolean"
    ELSE IF /\ message.sourceId # Undef
            /\ (message.sourceId.t # "string" \/ IsBlank(message.sourceId.s))
    THEN "SourceId must be a non-empty string"
    ELSE ""

\* MessageValidator.validateRequest: "" when it returns, else the message
\* of the MessageValidationError it throws.
validateRequest(message) ==
    IF ~Truthy(message.action) THEN "Missing required field: action"
    ELSE IF ~(message.action.t = "string" /\ message.action.s \in SchemaActions)
    THEN "Unknown action"
    ELSE IF FirstMissing(message, SchemaRequired(message.action.s)) # ""
    THEN "Missing required field"
    ELSE IF /\ message.volume # Undef
            /\ (message.volume.t # "number" \/ message.volume.n < 0 \/ message.volume.n > 100)
    THEN "Volume must be a number between 0 and 100"
    ELSE IF message.muted # Undef /\ message.muted.t # "boolean"
    THEN "Muted must be a boolean"
    ELSE IF /\ message.sourceId # Undef
            /\ (message.sourceId.t # "string" \/ IsBlank(message.sourceId.s))
    THEN "SourceId must be a non-empty string"
    ELSE ""

\* MessageValidator.createErrorResponse / createSuccessResponse.  `req` is
\* not on the wire: it records which validateAndRespond call wrote the
\* response (0: none).
createErrorResponse(requestId, error, req) ==
    [success |-> FALSE, requestId |-> requestId, data |-> "", error |-> error, req |-> req]

createSuccessResponse(requestId, data, req) ==
    [success |-> TRUE, requestId |-> requestId, data |-> data, error |-> "", req |-> req]

(* ------------------------------ framer ------------------------------- *)
\* The framer's fields during one processMessages call, with what the call
\* has emitted so far: st.consumed counts the bytes sliced off the front of
\* messageBuffer since the start (the stream offset of its first byte), and
\* st.events lists, in order, the payloads handed to handleIncomingMessage
\* and the 'error' events emitted.
FramerState(buf, exp, consumed) ==
    [messageBuffer |-> buf, expectedLength |-> exp, consumed |-> consumed, events |-> << >>]

\* resetMessageState
resetMessageState(st) == [st EXCEPT !.expectedLength = -1]

\* (mutant) the payload is taken as soon as any of it is there
HasSomeContent(st) == Len(st.messageBuffer) >= 1 \/ st.expectedLength = 0

\* `this.messageBuffer.length >= this.expectedLength`
HasContent(st) == Len(st.messageBuffer) >= st.expectedLength

RECURSIVE processMessages(_)
\* The second half of the loop body: slice the payload off when it is all
\* there, hand it over, reset, and go round the loop again; else break.
ReadContent(st) ==
    IF HasContent(st)
    THEN processMessages(resetMessageState(
            [st EXCEPT !.messageBuffer = Drop(st.messageBuffer, st.expectedLength),
                       !.consumed = st.consumed + st.expectedLength,
                       !.events = Append(st.events,
                           [type |-> "message",
                            data |-> Take(st.messageBuffer, st.expectedLength),
                            at |-> st.consumed, length |-> st.expectedLength])]))
    ELSE st

\* NativeMessagingProtocol.processMessages: the whole while (true) loop
processMessages(st) ==
    IF st.expectedLength = -1
    THEN IF Len(st.messageBuffer) < 4
         THEN st
         ELSE LET withLength ==
                      [st EXCEPT !.expectedLength = readUInt32LE(st.messageBuffer),
                                 !.messageBuffer = Drop(st.messageBuffer, 4),
                                 !.consumed = st.consumed + 4]
              IN IF withLength.expectedLength > maxMessageSize
                 THEN resetMessageState(
                          [withLength EXCEPT !.events = Append(withLength.events,
                              [type |-> "error", data |-> << >>, at |-> withLength.consumed,
                               length |-> withLength.expectedLength])])
                 ELSE ReadContent(withLength)
    ELSE ReadContent(st)

(* ---------------------------- dispatcher ----------------------------- *)
\* What the handler, `async () => await this.processMessage(message)`, can
\* settle with for a validated message: the data it resolves with, or the
\* error of the audio controller it rejects with.
processMessage(message) ==
    LET data == CASE message.action.s \in {"setTabVolume", "setMute"} -> "{success}"
                  [] message.action.s = "getVolume" -> "{volume}"
                  [] message.action.s = "getAudioSources" -> "{sources,count}"
                  [] message.action.s = "getBrowserProcesses" -> "{processes,count}"
                  [] OTHER -> ""
    IN IF data = ""
       THEN {[ok |-> FALSE, value |-> "Unknown action"]}
       ELSE {[ok |-> TRUE, value |-> data], [ok |-> FALSE, value |-> "Audio controller error"]}

\* `message.timeout || this.defaultTimeout`, as setTimeout takes it (a delay
\* that is no number >= 1 becomes 1)
TimerDelay(message) ==
    LET timeout == IF Truthy(message.timeout) THEN message.timeout ELSE Num(defaultTimeout)
    IN IF timeout.t = "number" /\ timeout.n >= 1 THEN timeout.n ELSE 1

\* (mutant) validateAndRespond starts no timer.
CallNoTimer(message, hadId, accepted) ==
    [message |-> message, hadId |-> hadId, accepted |-> accepted,
     handler |-> IF accepted THEN "running" ELSE "none",
     timer |-> "none",
     delay |-> 0,
     race |-> IF accepted THEN "pending" ELSE "none",
     result |-> "", first |-> ""]

\* One validateAndRespond call: the message, whether the incoming JSON had
\* an id of its own, and, when validation passed, the handler's promise
\* (with the value it settled with), the timer and the Promise.race over
\* them.  `first` is history: which of the two settled first.
Call(message, hadId, accepted) ==
    [message |-> message, hadId |-> hadId, accepted |-> accepted,
     handler |-> IF accepted THEN "running" ELSE "none",
     timer |-> IF accepted THEN "armed" ELSE "none",
     delay |-> IF accepted THEN TimerDelay(message) ELSE 0,
     race |-> IF accepted THEN "pending" ELSE "none",
     result |-> "", first |-> ""]

\* sendResponse: one more framed response on stdout
sendResponse(out, response) == Append(out, response)

\* (mutant) the handler and the timer are started before the message is
\* validated.
validateAndRespondHandlerFirst(h, message, hadId) ==
    LET error == validateRequest(message)
        r == Len(h.calls) + 1
    IN IF error = ""
       THEN [h EXCEPT !.calls = Append(h.calls, Call(message, hadId, TRUE))]
       ELSE [h EXCEPT !.calls = Append(h.calls, Call(message, hadId, TRUE)),
                      !.stdout = sendResponse(h.stdout,
                                     createErrorResponse(message.id, error, r))]

\* NativeMessagingProtocol.validateAndRespond up to its return: h holds the
\* calls made so far (h.calls), stdout (h.stdout) and the id counter.
validateAndRespond(h, message, hadId) ==
    LET error == validateRequest(message)
        r == Len(h.calls) + 1
    IN IF error = ""
       THEN [h EXCEPT !.calls = Append(h.calls, Call(message, hadId, TRUE))]
       ELSE [h EXCEPT !.calls = Append(h.calls, Call(message, hadId, FALSE)),
                      !.stdout = sendResponse(h.stdout,
                                     createErrorResponse(message.id, error, r))]

\* (mutant) every settlement of an input writes a response, as if then / catch
\* were attached to the handler's promise and to the timeout promise apart.
PromiseRaceSettleEach(h, r, ok, value) ==
    [h EXCEPT !.calls[r].race = IF ok THEN "fulfilled" ELSE "rejected",
              !.stdout = sendResponse(h.stdout,
                   IF ok THEN createSuccessResponse(h.calls[r].message.id, value, r)
                   ELSE createErrorResponse(h.calls[r].message.id, value, r))]

\* (mutant) a settlement after the first replaces the response already written.
PromiseRaceSettleLast(h, r, ok, value) ==
    LET response == IF ok THEN createSuccessResponse(h.calls[r].message.id, value, r)
                    ELSE createErrorResponse(h.calls[r].message.id, value, r)
    IN IF h.calls[r].race = "pending"
       THEN [h EXCEPT !.calls[r].race = IF ok THEN "fulfilled" ELSE "rejected",
                      !.stdout = sendResponse(h.stdout, response)]
       ELSE [h EXCEPT !.stdout = [i \in 1..Len(h.stdout) |->
                                    IF h.stdout[i].req = r THEN response ELSE h.stdout[i]]]

\* (mutant) the response carries the id of the latest message received, as if
\* the message were kept in a field shared by all calls.
PromiseRaceSettleShared(h, r, ok, value) ==
    LET id == h.calls[Len(h.calls)].message.id
    IN IF h.calls[r].race = "pending"
       THEN [h EXCEPT !.calls[r].race = IF ok THEN "fulfilled" ELSE "rejected",
                      !.stdout = sendResponse(h.stdout,
                           IF ok THEN createSuccessResponse(id, value, r)
                           ELSE createErrorResponse(id, value, r))]
       ELSE h

\* One input of Promise.race([handler(), timeoutPromise]) settles for call
\* r: the race takes the first settlement only, and its then / catch
\* callback writes the response.
PromiseRaceSettle(h, r, ok, value) ==
    IF h.calls[r].race = "pending"
    THEN [h EXCEPT !.calls[r].race = IF ok THEN "fulfilled" ELSE "rejected",
                   !.stdout = sendResponse(h.stdout,
                        IF ok THEN createSuccessResponse(h.calls[r].message.id, value, r)
                        ELSE createErrorResponse(h.calls[r].message.id, value, r))]
    ELSE h

\* generateMessageId: a fresh id
generateMessageId(n) == [t |-> "string", n |-> n, s |-> "msg_"]

\* (mutant) the catch block logs the parse failure and answers nothing.
handleIncomingMessageSilent(h, messageData) ==
    LET parsed == ParseJSON(messageData)
    IN IF parsed.kind = "object"
       THEN IF Truthy(parsed.obj.id)
            THEN validateAndRespond(h, parsed.obj, TRUE)
            ELSE validateAndRespond([h EXCEPT !.nextId = h.nextId + 1],
                     [parsed.obj EXCEPT !.id = generateMessageId(h.nextId)], FALSE)
       ELSE h

\* NativeMessagingProtocol.handleIncomingMessage, with the 'message'
\* listener (BrowserVolumeHost.handleMessage) it calls.  A parsed value
\* that is no object makes the id assignment throw (strict mode), which
\* the catch answers like a SyntaxError.
handleIncomingMessage(h, messageData) ==
    LET parsed == ParseJSON(messageData)
    IN IF parsed.kind = "object"
       THEN IF Truthy(parsed.obj.id)
            THEN validateAndRespond(h, parsed.obj, TRUE)
            ELSE validateAndRespond([h EXCEPT !.nextId = h.nextId + 1],
                     [parsed.obj EXCEPT !.id = generateMessageId(h.nextId)], FALSE)
       ELSE [h EXCEPT !.stdout = sendResponse(h.stdout,
                          createErrorResponse(Undef, "Failed to parse message", 0))]

\* The host's 'error' listener: an error response with no requestId
onError(h, error) ==
    [h EXCEPT !.stdout = sendResponse(h.stdout, createErrorResponse(Undef, error, 0))]

\* The listeners' effects for the events of one processMessages call, in
\* the order the loop raised them
RECURSIVE HandleEvents(_, _)
HandleEvents(h, events) ==
    IF events = << >> THEN h
    ELSE HandleEvents(
             IF Head(events).type = "message"
             THEN handleIncomingMessage(h, Head(events).data)
             ELSE onError(h, "Message too large"),
             Tail(events))

(* ===================== the extension: arithmetic ===================== *)
\* Math.max(0, Math.min(100, v))
Clamp(v) == IF v < 0 THEN 0 ELSE IF v > 100 THEN 100 ELSE v

\* Math.round of the exact quotient num / den (den > 0): halves go up
MathRound(num, den) == (2 * num + den) \div (2 * den)

\* The <<s, n, o>> with s, n in 0..100 and o in 1..100 for which the double
\* s * (n / o) comes out just below the half that s * n / o is exactly, so
\* that Math.round gives one less than for the exact product.  (n / o is
\* rounded to a double before the multiplication.)
ProductBelowHalf ==
    { <<27,13,6>>, <<51,13,6>>, <<57,13,6>>, <<99,13,6>>, <<51,29,6>>, <<99,29,6>>, <<15,49,6>>, <<27,49,6>>,
      <<51,49,6>>, <<57,49,6>>, <<99,49,6>>, <<27,55,6>>, <<51,55,6>>, <<99,55,6>>, <<99,61,6>>, <<45,7,10>>,
      <<85,7,10>>, <<25,23,10>>, <<45,23,10>>, <<55,23,10>>, <<85,23,10>>, <<95,23,10>>, <<15,41,10>>, <<25,41,10>>,
      <<45,41,10>>, <<55,41,10>>, <<85,41,10>>, <<95,41,10>>, <<25,51,10>>, <<45,51,10>>, <<85,51,10>>, <<95,51,10>>,
      <<25,87,10>>, <<45,87,10>>, <<55,87,10>>, <<85,87,10>>, <<95,87,10>>, <<25,97,10>>, <<45,97,10>>, <<85,97,10>>,
      <<95,97,10>>, <<54,13,12>>, <<27,26,12>>, <<51,26,12>>, <<57,26,12>>, <<99,26,12>>, <<30,49,12>>, <<54,49,12>>,
      <<54,55,12>>, <<51,58,12>>, <<99,58,12>>, <<15,98,12>>, <<27,98,12>>, <<51,98,12>>, <<57,98,12>>, <<99,98,12>>,
      <<21,17,14>>, <<49,17,14>>, <<77,17,14>>, <<91,17,14>>, <<21,41,14>>, <<77,41,14>>, <<7,61,14>>, <<21,61,14>>,
      <<49,61,14>>, <<77,61,14>>, <<91,61,14>>, <<21,75,14>>, <<77,75,14>>, <<91,75,14>>, <<77,89,14>>, <<45,23,18>>,
      <<81,23,18>>, <<99,23,18>>, <<27,37,18>>, <<45,37,18>>, <<81,37,18>>, <<99,37,18>>, <<27,39,18>>, <<51,39,18>>,
      <<57,39,18>>, <<99,39,18>>, <<81,55,18>>, <<27,83,18>>, <<45,83,18>>, <<81,83,18>>, <<99,83,18>>, <<51,87,18>>,
      <<99,87,18>>, <<90,7,20>>, <<45,14,20>>, <<85,14,20>>, <<50,23,20>>, <<90,23,20>>, <<30,41,20>>, <<50,41,20>>,
      <<90,41,20>>, <<25,46,20>>, <<45,46,20>>, <<55,46,20>>, <<85,46,20>>, <<95,46,20>>, <<50,51,20>>, <<90,51,20>>,
      <<15,82,20>>, <<25,82,20>>, <<45,82,20>>, <<55,82,20>>, <<85,82,20>>, <<95,82,20>>, <<50,87,20>>, <<90,87,20>>,
      <<50,97,20>>, <<90,97,20>>, <<55,3,22>>, <<99,3,22>>, <<11,15,22>>, <<77,15,22>>, <<11,49,22>>, <<55,49,22>>,
      <<77,49,22>>, <<99,49,22>>, <<77,71,22>>, <<54,26,24>>, <<60,49,24>>, <<27,52,24>>, <<51,52,24>>, <<57,52,24>>,
      <<99,52,24>>, <<30,98,24>>, <<54,98,24>>, <<13,15,26>>, <<39,15,26>>, <<91,15,26>>, <<13,63,26>>, <<91,63,26>>,
      <<39,73,26>>, <<91,73,26>>, <<42,17,28>>, <<98,17,28>>, <<21,34,28>>, <<49,34,28>>, <<77,34,28>>, <<91,34,28>>,
      <<42,41,28>>, <<14,61,28>>, <<42,61,28>>, <<98,61,28>>, <<42,75,28>>, <<21,82,28>>, <<77,82,28>>, <<75,11,30>>,
      <<45,21,30>>, <<85,21,30>>, <<27,65,30>>, <<51,65,30>>, <<57,65,30>>, <<99,65,30>>, <<25,69,30>>, <<45,69,30>>,
      <<55,69,30>>, <<85,69,30>>, <<95,69,30>>, <<45,73,30>>, <<75,73,30>>, <<51,35,34>>, <<85,35,34>>, <<51,37,34>>,
      <<85,37,34>>, <<51,39,34>>, <<85,87,34>>, <<85,91,34>>, <<90,23,36>>, <<54,37,36>>, <<90,37,36>>, <<54,39,36>>,
      <<45,46,36>>, <<81,46,36>>, <<99,46,36>>, <<27,74,36>>, <<45,74,36>>, <<81,74,36>>, <<99,74,36>>, <<27,78,36>>,
      <<51,78,36>>, <<57,78,36>>, <<99,78,36>>, <<54,83,36>>, <<90,83,36>>, <<95,45,38>>, <<19,53,38>>, <<57,77,38>>,
      <<19,87,38>>, <<95,87,38>>, <<95,93,38>>, <<90,14,40>>, <<100,23,40>>, <<45,28,40>>, <<85,28,40>>, <<60,41,40>>,
      <<100,41,40>>, <<50,46,40>>, <<90,46,40>>, <<100,51,40>>, <<30,82,40>>, <<50,82,40>>, <<90,82,40>>, <<100,87,40>>,
      <<25,92,40>>, <<45,92,40>>, <<55,92,40>>, <<85,92,40>>, <<95,92,40>>, <<100,97,40>>, <<21,51,42>>, <<49,51,42>>,
      <<77,51,42>>, <<91,51,42>>, <<21,59,42>>, <<27,91,42>>, <<51,91,42>>, <<57,91,42>>, <<99,91,42>>, <<21,97,42>>,
      <<55,6,44>>, <<99,6,44>>, <<22,15,44>>, <<11,30,44>>, <<77,30,44>>, <<22,49,44>>, <<11,98,44>>, <<55,98,44>>,
      <<77,98,44>>, <<99,98,44>>, <<23,13,46>>, <<69,21,46>>, <<23,61,46>>, <<69,61,46>>, <<23,99,46>>, <<69,99,46>>,
      <<54,52,48>>, <<60,98,48>>, <<25,29,50>>, <<45,35,50>>, <<85,35,50>>, <<75,41,50>>, <<25,57,50>>, <<75,57,50>>,
      <<75,69,50>>, <<26,15,52>>, <<78,15,52>>, <<13,30,52>>, <<39,30,52>>, <<91,30,52>>, <<26,63,52>>, <<78,73,52>>,
      <<27,61,54>>, <<81,61,54>>, <<45,69,54>>, <<81,69,54>>, <<99,69,54>>, <<81,77,54>>, <<84,17,56>>, <<42,34,56>>,
      <<98,34,56>>, <<84,41,56>>, <<28,61,56>>, <<84,61,56>>, <<21,68,56>>, <<49,68,56>>, <<77,68,56>>, <<91,68,56>>,
      <<84,75,56>>, <<42,82,56>>, <<87,17,58>>, <<29,31,58>>, <<87,31,58>>, <<29,59,58>>, <<87,65,58>>, <<87,71,58>>,
      <<90,21,60>>, <<75,22,60>>, <<45,42,60>>, <<85,42,60>>, <<54,65,60>>, <<50,69,60>>, <<90,69,60>>, <<90,73,60>>,
      <<93,17,62>>, <<93,21,62>>, <<93,69,62>>, <<93,83,62>>, <<93,85,62>>, <<55,9,66>>, <<99,9,66>>, <<99,37,66>>,
      <<11,45,66>>, <<77,45,66>>, <<99,73,66>>, <<51,70,68>>, <<85,70,68>>, <<51,74,68>>, <<85,74,68>>, <<51,78,68>>,
      <<35,47,70>>, <<45,49,70>>, <<85,49,70>>, <<21,85,70>>, <<49,85,70>>, <<77,85,70>>, <<91,85,70>>, <<90,46,72>>,
      <<54,74,72>>, <<90,74,72>>, <<54,78,72>>, <<45,92,72>>, <<81,92,72>>, <<99,92,72>>, <<37,39,74>>, <<37,43,74>>,
      <<38,53,76>>, <<38,87,76>>, <<95,90,76>>, <<39,31,78>>, <<13,45,78>>, <<39,45,78>>, <<91,45,78>>, <<39,85,78>>,
      <<39,95,78>>, <<90,28,80>>, <<100,46,80>>, <<45,56,80>>, <<85,56,80>>, <<60,82,80>>, <<100,82,80>>, <<50,92,80>>,
      <<90,92,80>>, <<41,47,82>>, <<41,57,82>>, <<41,93,82>>, <<42,51,84>>, <<98,51,84>>, <<42,59,84>>, <<54,91,84>>,
      <<42,97,84>>, <<43,23,86>>, <<43,31,86>>, <<43,57,86>>, <<55,12,88>>, <<99,12,88>>, <<44,15,88>>, <<22,30,88>>,
      <<44,49,88>>, <<11,60,88>>, <<77,60,88>>, <<22,98,88>>, <<45,13,90>>, <<75,33,90>>, <<45,49,90>>, <<45,63,90>>,
      <<85,63,90>>, <<46,13,92>>, <<23,26,92>>, <<69,42,92>>, <<46,61,92>>, <<46,99,92>>, <<47,3,94>>, <<47,31,94>>,
      <<47,51,94>>, <<47,99,94>>, <<49,27,98>>, <<49,55,98>>, <<49,99,98>>, <<50,29,100>>, <<90,35,100>>, <<50,57,100>>,
      <<25,58,100>>, <<45,70,100>>, <<85,70,100>>, <<75,82,100>> }

\* The same for the double s * (v / 100), with s in 0..100, v in -100..300
ScaledBelowHalf ==
    { <<50,-55>>, <<90,-55>>, <<75,-34>>, <<25,-14>>, <<75,-14>>, <<50,-7>>, <<50,29>>, <<90,35>>,
      <<50,57>>, <<25,58>>, <<45,70>>, <<85,70>>, <<75,82>>, <<50,113>>, <<25,114>>, <<75,114>>,
      <<50,115>>, <<90,115>>, <<75,138>>, <<50,201>>, <<50,203>>, <<30,205>>, <<50,205>>, <<90,205>>,
      <<50,207>>, <<25,226>>, <<75,226>>, <<25,230>>, <<45,230>>, <<55,230>>, <<85,230>>, <<95,230>>,
      <<50,251>>, <<50,253>>, <<50,255>>, <<90,255>>, <<75,278>> }

\* Math.round(s * ratio) with ratio = n / o, as doubles
RoundTimesRatio(s, n, o) ==
    IF << s, n, o >> \in ProductBelowHalf THEN MathRound(s * n, o) - 1 ELSE MathRound(s * n, o)

\* Math.round(s * scaleFactor) with scaleFactor = v / 100, as doubles
RoundScaled(s, v) ==
    IF << s, v >> \in ScaledBelowHalf THEN MathRound(s * v, 100) - 1 ELSE MathRound(s * v, 100)

(* ================ the extension: VolumeModeController ================ *)
VolumeModes == {"independent", "linked", "inverse"}

\* A Map with no entry
EmptyMap == [k \in {} |-> 0]

\* Map.set(key, value)
MapSet(map, key, value) == (key :> value) @@ map

\* Map.delete(key)
MapDelete(map, key) == [k \in DOMAIN map \ {key} |-> map[k]]

\* A VolumeModeController as its field initializers leave it
NewController ==
    [mode |-> "independent",
     sources |-> EmptyMap,
     settings |-> [mode |-> "independent", masterVolume |-> 100, muteAll |-> FALSE]]

\* sources.reduce((sum, source) => sum + source.volume, 0)
RECURSIVE SumVolumes(_, _)
SumVolumes(sources, keys) ==
    IF keys = {} THEN 0
    ELSE LET k == CHOOSE x \in keys : TRUE
         IN sources[k].volume + SumVolumes(sources, keys \ {k})

\* (mutant) entering linked takes the average rounded down
handleModeTransitionFloor(c, newMode) ==
    LET n == Cardinality(DOMAIN c.sources)
    IN IF n = 0 \/ newMode = "independent" THEN c
       ELSE IF newMode = "linked"
       THEN LET averageVolume == SumVolumes(c.sources, DOMAIN c.sources) \div n
            IN [c EXCEPT !.sources =
                   [t \in DOMAIN c.sources |-> [c.sources[t] EXCEPT !.volume = averageVolume]]]
       ELSE LET evenVolume == MathRound(100, n)
            IN [c EXCEPT !.sources =
                   [t \in DOMAIN c.sources |->
                       [c.sources[t] EXCEPT !.volume = IF evenVolume < 100 THEN evenVolume ELSE 100]]]

\* handleModeTransition: entering linked levels every source to the rounded
\* average, entering inverse to the rounded even share
handleModeTransition(c, newMode) ==
    LET n == Cardinality(DOMAIN c.sources)
    IN IF n = 0 \/ newMode = "independent" THEN c
       ELSE IF newMode = "linked"
       THEN LET averageVolume == MathRound(SumVolumes(c.sources, DOMAIN c.sources), n)
            IN [c EXCEPT !.sources =
                   [t \in DOMAIN c.sources |-> [c.sources[t] EXCEPT !.volume = averageVolume]]]
       ELSE LET evenVolume == MathRound(100, n)
            IN [c EXCEPT !.sources =
                   [t \in DOMAIN c.sources |->
                       [c.sources[t] EXCEPT !.volume = IF evenVolume < 100 THEN evenVolume ELSE 100]]]

\* setMode (saveSettings is the caller's storage write)
setMode(c, mode) ==
    handleModeTransition([c EXCEPT !.mode = mode, !.settings.mode = mode], mode)

\* setMasterMute
setMasterMute(c, muted) == [c EXCEPT !.settings.muteAll = muted]

\* addSource
addSource(c, source) == [c EXCEPT !.sources = MapSet(c.sources, source.tabId, source)]

\* setSourceMute
setSourceMute(c, tabId, muted) ==
    IF tabId \in DOMAIN c.sources THEN [c EXCEPT !.sources[tabId].muted = muted] ELSE c

\* (mutant) the requested volume is added to the source's volume
setVolumeIndependentAdd(c, tabId, volume) ==
    [c EXCEPT !.sources[tabId].volume = Clamp(c.sources[tabId].volume + volume)]

\* (mutant) the other sources are set along with the one asked for
setVolumeIndependentAll(c, tabId, volume) ==
    [c EXCEPT !.sources = [t \in DOMAIN c.sources |->
                              [c.sources[t] EXCEPT !.volume = Clamp(volume)]]]

\* setVolumeIndependent
setVolumeIndependent(c, tabId, volume) ==
    [c EXCEPT !.sources[tabId].volume = Clamp(volume)]

\* (mutant) only the source asked for is set
setVolumeLinkedNoRatio(c, tabId, volume) ==
    LET newVolume == Clamp(volume)
    IN [c EXCEPT !.sources = [t \in DOMAIN c.sources |->
           [c.sources[t] EXCEPT !.volume = IF t = tabId THEN newVolume ELSE @]]]

\* setVolumeLinked
setVolumeLinked(c, tabId, volume) ==
    LET oldVolume == c.sources[tabId].volume
        newVolume == Clamp(volume)
    IN IF oldVolume = 0
       THEN [c EXCEPT !.sources = [t \in DOMAIN c.sources |->
                                      [c.sources[t] EXCEPT !.volume = newVolume]]]
       ELSE [c EXCEPT !.sources = [t \in DOMAIN c.sources |->
                [c.sources[t] EXCEPT
                    !.volume = Clamp(RoundTimesRatio(c.sources[t].volume, newVolume, oldVolume))]]]

\* (mutant) the even share is not kept within [0,100]
setVolumeInverseUnclamped(c, tabId, volume) ==
    LET n == Cardinality(DOMAIN c.sources)
        newVolume == Clamp(volume)
        share == MathRound(100 * n - newVolume, n - 1)
    IN IF n < 2 THEN c
       ELSE [c EXCEPT !.sources = [t \in DOMAIN c.sources |->
                [c.sources[t] EXCEPT !.volume = IF t = tabId THEN newVolume ELSE share]]]

\* (mutant) the other sources share what the target leaves of 100
setVolumeInverseZeroSum(c, tabId, volume) ==
    LET n == Cardinality(DOMAIN c.sources)
        newVolume == Clamp(volume)
        share == MathRound(100 - newVolume, n - 1)
    IN IF n < 2 THEN c
       ELSE [c EXCEPT !.sources = [t \in DOMAIN c.sources |->
                [c.sources[t] EXCEPT !.volume = IF t = tabId THEN newVolume ELSE share]]]

\* setVolumeInverse: with fewer than two sources it returns at once; else
\* the target gets the clamped volume and every other source the rounded
\* even share of 100 * n - newVolume, at most 100
setVolumeInverse(c, tabId, volume) ==
    LET n == Cardinality(DOMAIN c.sources)
        newVolume == Clamp(volume)
        remainingBudget == 100 * n - newVolume
        \* Math.round(Math.min(100, Math.max(0, remainingBudget / (n - 1))))
        share == IF remainingBudget <= 0 THEN 0
                 ELSE IF remainingBudget >= 100 * (n - 1) THEN 100
                 ELSE MathRound(remainingBudget, n - 1)
    IN IF n < 2 THEN c
       ELSE [c EXCEPT !.sources = [t \in DOMAIN c.sources |->
                [c.sources[t] EXCEPT !.volume = IF t = tabId THEN newVolume ELSE share]]]

\* setVolume (setSourceVolume parses the id and calls it)
setVolume(c, tabId, volume) ==
    IF tabId \notin DOMAIN c.sources THEN c
    ELSE CASE c.mode = "independent" -> setVolumeIndependent(c, tabId, volume)
           [] c.mode = "linked" -> setVolumeLinked(c, tabId, volume)
           [] c.mode = "inverse" -> setVolumeInverse(c, tabId, volume)
           [] OTHER -> c

\* setMasterVolume
setMasterVolume(c, volume) ==
    [c EXCEPT !.settings.masterVolume = volume,
              !.sources = [t \in DOMAIN c.sources |->
                  [c.sources[t] EXCEPT !.volume = Clamp(RoundScaled(c.sources[t].volume, volume))]]]

\* toggleMuteAll
toggleMuteAll(c) ==
    [c EXCEPT !.settings.muteAll = ~c.settings.muteAll,
              !.sources = [t \in DOMAIN c.sources |->
                  [c.sources[t] EXCEPT !.muted = ~c.settings.muteAll]]]

\* loadSettings' callback: `{ ...this.settings, ...result.volumeModeSettings }`
\* (stored: what storage held under volumeModeSettings, {} when nothing)
loadSettings(c, stored) ==
    IF stored = {} THEN c
    ELSE LET volumeModeSettings == CHOOSE x \in stored : TRUE
         IN [c EXCEPT !.settings = volumeModeSettings, !.mode = volumeModeSettings.mode]

(* ------------------- shortcuts.ts: ShortcutsManager ------------------ *)
\* The ids of defaultShortcuts, each of them enabled
defaultShortcuts ==
    {"mute-all", "volume-up-all", "volume-down-all", "cycle-modes",
     "control-tab-1", "control-tab-2", "control-tab-3", "control-tab-4", "control-tab-5",
     "reset-volumes", "focus-mode"}

\* A ShortcutsManager as its constructor leaves it: initializeShortcuts is
\* suspended in its await of the stored shortcuts with the shortcuts map
\* still empty (a shortcut of the map is kept as its enabled flag), and
\* setupActionHandlers has set a handler for every default id
NewShortcutsManager ==
    [shortcuts |-> EmptyMap, loading |-> TRUE, actionHandlers |-> defaultShortcuts]

\* initializeShortcuts from its await on: the map gets every default
\* shortcut, overridden by the stored one of the same id (stored: the
\* enabled flags of customShortcuts, by id)
initializeShortcuts(mgr, stored) ==
    [mgr EXCEPT !.loading = FALSE,
                !.shortcuts = [id \in defaultShortcuts |->
                                  IF id \in DOMAIN stored THEN stored[id] ELSE TRUE] @@ @]

\* updateShortcut(id, {enabled}): nothing for an id the map has not
updateShortcut(mgr, id, enabled) ==
    IF id \notin DOMAIN mgr.shortcuts THEN mgr
    ELSE [mgr EXCEPT !.shortcuts = MapSet(@, id, enabled)]

\* handleCommand(commandId): whether it gets to run the action handler
handleCommand(mgr, commandId) ==
    /\ commandId \in DOMAIN mgr.shortcuts
    /\ mgr.shortcuts[commandId]
    /\ commandId \in mgr.actionHandlers

(* ------------------------- popup.ts: the popup ----------------------- *)
\* handleAudioSourcesUpdate(sources) on a popup p: its audioSources map is
\* cleared and filled with the sources of the update, each with the volume
\* and muted flag the popup had for it if it had any, and each is handed
\* to addSource
handleAudioSourcesUpdate(p, sources) ==
    LET updated == [t \in DOMAIN sources |->
                       [tabId |-> t,
                        volume |-> IF t \in DOMAIN p.audioSources
                                   THEN p.audioSources[t].volume ELSE sources[t].volume,
                        muted |-> IF t \in DOMAIN p.audioSources
                                  THEN p.audioSources[t].muted ELSE sources[t].muted]]
    IN  [audioSources |-> updated,
         volumeController |-> [p.volumeController EXCEPT !.sources = updated @@ @]]

(* ---------------- background.ts: the source registry ----------------- *)
\* tab.title as the browser reports it; '' stands for a tab without one
Titles == {"", "Song"}

\* An AudioSource object as handleAudioStateChange builds it (favicon and
\* url, descriptive like the title, are left out)
AudioSource(tabId, title, volume, muted) ==
    [tabId |-> tabId,
     title |-> IF title # "" THEN title ELSE "Unknown Tab",
     volume |-> volume,
     muted |-> muted,
     isPlaying |-> TRUE]

\* audioSources is a Map<number, AudioSource>: its entries in insertion
\* order, each a key and a reference to an object of the heap
RegistryHas(m, tabId) == \E i \in 1..Len(m) : m[i].key = tabId

RegistryGet(m, tabId) == m[CHOOSE i \in 1..Len(m) : m[i].key = tabId].ref

RegistrySet(m, tabId, ref) ==
    IF RegistryHas(m, tabId)
    THEN [i \in 1..Len(m) |->
             IF m[i].key = tabId THEN [key |-> tabId, ref |-> ref] ELSE m[i]]
    ELSE Append(m, [key |-> tabId, ref |-> ref])

RegistryDelete(m, tabId) == SelectSeq(m, LAMBDA e : e.key # tabId)

\* Array.from(audioSources.values())
RegistryValues(m) == [i \in 1..Len(m) |-> m[i].ref]

\* (mutant) a started event gives the source the default levels again
handleAudioStateChangeReset(b, tabId, isPlaying, title) ==
    IF isPlaying
    THEN [b EXCEPT
             !.heap = Append(b.heap, AudioSource(tabId, title, 100, FALSE)),
             !.audioSources = RegistrySet(b.audioSources, tabId, Len(b.heap) + 1)]
    ELSE [b EXCEPT !.audioSources = RegistryDelete(b.audioSources, tabId)]

\* handleAudioStateChange, up to its first await (nothing after it writes
\* to the registry): a started event builds a new object with the levels
\* of the one the registry holds, or 100 and unmuted; a stopped event
\* deletes the entry and the process mappings of the tab
handleAudioStateChange(b, tabId, isPlaying, title) ==
    IF isPlaying
    THEN LET had == RegistryHas(b.audioSources, tabId)
             existingSource == b.heap[RegistryGet(b.audioSources, tabId)]
             audioSource == AudioSource(tabId, title,
                                IF had THEN existingSource.volume ELSE 100,
                                IF had THEN existingSource.muted ELSE FALSE)
         IN  [b EXCEPT
                 !.heap = Append(b.heap, audioSource),
                 !.audioSources = RegistrySet(b.audioSources, tabId, Len(b.heap) + 1)]
    ELSE LET mapped == tabId \in DOMAIN b.tabToProcessMap
             processId == b.tabToProcessMap[tabId]
         IN  [b EXCEPT
                 !.audioSources = RegistryDelete(b.audioSources, tabId),
                 !.tabToProcessMap =
                     IF mapped /\ processId # 0 THEN MapDelete(@, tabId) ELSE @,
                 !.processToSourceMap =
                     IF mapped /\ processId # 0 THEN MapDelete(@, processId) ELSE @]

\* onMessage, action 'setVolume': the volume is stored as it came
onSetVolume(b, tabId, volume) ==
    IF RegistryHas(b.audioSources, tabId)
    THEN LET source == RegistryGet(b.audioSources, tabId)
         IN  [b EXCEPT !.heap[source].volume = volume,
                       !.audioSources = RegistrySet(@, tabId, source)]
    ELSE b

\* onMessage, action 'setMute'
onSetMute(b, tabId, muted) ==
    IF RegistryHas(b.audioSources, tabId)
    THEN LET source == RegistryGet(b.audioSources, tabId)
         IN  [b EXCEPT !.heap[source].muted = muted,
                       !.audioSources = RegistrySet(@, tabId, source)]
    ELSE b

\* (mutant) a failed send puts the source back to full volume, unmuted
onSendFailedRollback(b, tabId) ==
    IF RegistryHas(b.audioSources, tabId)
    THEN LET source == RegistryGet(b.audioSources, tabId)
         IN  [b EXCEPT !.heap[source].volume = 100, !.heap[source].muted = FALSE]
    ELSE b

\* the .catch of chrome.tabs.sendMessage in 'setVolume' and 'setMute':
\* console.warn, nothing else
onSendFailed(b, tabId) == b

\* tabs.onRemoved, and tabs.onUpdated when the tab's url changed
onTabGone(b, tabId) ==
    IF RegistryHas(b.audioSources, tabId)
    THEN [b EXCEPT !.audioSources = RegistryDelete(@, tabId)]
    ELSE b

\* The volume a shortcut's loop gives a source: handleVolumeAllShortcut's
\* step, clamped, and handleResetVolumesShortcut's 50
ShortcutVolume(kind, delta, volume) ==
    IF kind = "volume-all" THEN Clamp(volume + delta) ELSE 50

\* One iteration of a volume shortcut's `for (const source of sources)`,
\* up to its await: the object of the snapshot gets its volume and is set
\* in the registry under its tab
ShortcutIteration(b, kind, delta, source) ==
    [b EXCEPT
        !.heap[source].volume = ShortcutVolume(kind, delta, b.heap[source].volume),
        !.audioSources = RegistrySet(@, b.heap[source].tabId, source)]

\* The objects that can still be reached, from the registry or from the
\* snapshot of a suspended shortcut
Reachable(b, ts) ==
    {b.audioSources[i].ref : i \in 1..Len(b.audioSources)}
        \cup UNION {{ts[j].rest[k] : k \in 1..Len(ts[j].rest)} : j \in 1..Len(ts)}

\* Where a reachable object is once the unreachable ones are gone
Moved(ref, live) == Cardinality({r \in live : r <= ref})

\* The background's memory and suspended shortcuts with the objects that
\* nothing refers to any more dropped from the heap (garbage collection)
Collected(b, ts) ==
    LET live == Reachable(b, ts)
    IN  [heap |-> [k \in 1..Cardinality(live) |->
                      b.heap[CHOOSE r \in live : Moved(r, live) = k]],
         audioSources |-> [i \in 1..Len(b.audioSources) |->
                              [key |-> b.audioSources[i].key,
                               ref |-> Moved(b.audioSources[i].ref, live)]],
         tabToProcessMap |-> b.tabToProcessMap,
         processToSourceMap |-> b.processToSourceMap,
         tasks |-> [j \in 1..Len(ts) |->
                       [ts[j] EXCEPT !.rest = [k \in 1..Len(@) |-> Moved(@[k], live)]]]]

\* The registry as a function: for each tab it has, the source held
Sources(b) ==
    [t \in {b.audioSources[i].key : i \in 1..Len(b.audioSources)} |->
        b.heap[RegistryGet(b.audioSources, t)]]

\* (mutant) 'setVolume' and 'setMute' answer success for any tab
onSetResponseSuccess(b, tabId) == [success |-> TRUE, error |-> ""]

\* sendResponse of 'setVolume' and of 'setMute'
onSetResponse(b, tabId) ==
    IF RegistryHas(b.audioSources, tabId)
    THEN [success |-> TRUE, error |-> ""]
    ELSE [success |-> FALSE, error |-> "Tab not found"]

\* onMessage, action 'setMode': `message.mode || 'independent'` (mode ''
\* stands for a message without one) goes to currentVolumeMode
onSetMode(mode) == IF mode # "" THEN mode ELSE "independent"

\* handleCycleModeShortcut: the mode that follows currentVolumeMode in
\* ['independent', 'linked', 'inverse'], indexOf giving -1 for any other
CycledMode(mode) ==
    LET modes == << "independent", "linked", "inverse" >>
        currentIndex == IF \E i \in 1..3 : modes[i] = mode
                        THEN (CHOOSE i \in 1..3 : modes[i] = mode) - 1
                        ELSE -1
        nextIndex == (currentIndex + 1) % 3
    IN  modes[nextIndex + 1]

\* handleMuteAllShortcut's loop over what toggleMuteAll returned, the
\* controller's sources: each that the registry has a source for gives
\* that source its muted flag.  Its await is met with a source of the
\* controller only.
handleMuteAllShortcut(b, c) ==
    LET sources == toggleMuteAll(c).sources
    IN  [b EXCEPT !.heap = [r \in DOMAIN b.heap |->
            IF \E i \in 1..Len(b.audioSources) :
                  /\ b.audioSources[i].ref = r
                  /\ b.audioSources[i].key \in DOMAIN sources
            THEN LET tabId == b.audioSources[
                         CHOOSE i \in 1..Len(b.audioSources) :
                             /\ b.audioSources[i].ref = r
                             /\ b.audioSources[i].key \in DOMAIN sources].key
                 IN  [b.heap[r] EXCEPT !.muted = sources[tabId].muted]
            ELSE b.heap[r]]]

\* What the registry holds for a tab: the set of that one source, or {}
Tracked(b, tabId) ==
    IF RegistryHas(b.audioSources, tabId)
    THEN {b.heap[RegistryGet(b.audioSources, tabId)]}
    ELSE {}

(* ------------------- error-handler.ts: ErrorHandler ------------------ *)
\* Array.prototype.slice(start, end): a negative index counts from the end,
\* and both are kept within the array
slice(s, start, end) ==
    LET from == IF start < 0
                THEN (IF Len(s) + start < 0 THEN 0 ELSE Len(s) + start)
                ELSE (IF start > Len(s) THEN Len(s) ELSE start)
        to == IF end < 0
              THEN (IF Len(s) + end < 0 THEN 0 ELSE Len(s) + end)
              ELSE (IF end > Len(s) THEN Len(s) ELSE end)
    IN  SubSeq(s, from + 1, to)

\* (mutant) the error is put at the end of the history
addToErrorHistoryPush(history, error) ==
    LET pushed == Append(history, error)
    IN  IF Len(pushed) > maxErrorHistory THEN slice(pushed, 0, maxErrorHistory) ELSE pushed

\* addToErrorHistory: unshift, then cut to maxErrorHistory
addToErrorHistory(history, error) ==
    LET unshifted == << error >> \o history
    IN  IF Len(unshifted) > maxErrorHistory
        THEN slice(unshifted, 0, maxErrorHistory)
        ELSE unshifted

\* getRecentErrors(count)
getRecentErrors(history, count) == slice(history, 0, count)

\* retryConfigs as setupDefaultRetryConfigs fills it: maxAttempts by
\* operation type, 0 standing for no entry
retryConfigs(operationType) ==
    CASE operationType = "native_messaging" -> 3
      [] operationType = "audio_control" -> 2
      [] operationType = "permission" -> 1
      [] OTHER -> 0

\* retry's config.maxAttempts: that of the operation type, of
\* native_messaging when the type has none, or the custom one when given
\* (customConfig: {} or the set of the one custom maxAttempts)
configMaxAttempts(operationType, customConfig) ==
    IF customConfig # {} THEN CHOOSE n \in customConfig : TRUE
    ELSE IF retryConfigs(operationType) # 0 THEN retryConfigs(operationType)
    ELSE retryConfigs("native_messaging")

\* A retry call that has not been made (wrapped: it is wrapOperation that
\* calls retry; reported: the handleError calls made for its failure)
NoRetry ==
    [phase |-> "idle", maxAttempts |-> 0, attempt |-> 0, invocations |-> 0,
     lastError |-> "", settled |-> "", outcomes |-> << >>,
     wrapped |-> FALSE, reported |-> 0]

\* The head of retry's for loop: with attempt <= maxAttempts the operation
\* is invoked and awaited, else the loop is left
retryLoop(r) ==
    IF r.attempt <= r.maxAttempts
    THEN [r EXCEPT !.phase = "awaiting", !.invocations = @ + 1]
    ELSE [r EXCEPT !.phase = "exhausted"]

\* (mutant) the loop is left at the first failure
retryCatchGivesUp(r, error) ==
    [r EXCEPT !.lastError = error, !.phase = "exhausted",
              !.outcomes = Append(@, error)]

\* retry's catch block: the error is kept; after the last attempt the loop
\* is left, else retry sleeps
retryCatch(r, error) ==
    [r EXCEPT !.lastError = error,
              !.phase = IF r.attempt = r.maxAttempts THEN "exhausted" ELSE "sleeping",
              !.outcomes = Append(@, error)]

\* the return in retry's try block
retryReturn(r, result) ==
    [r EXCEPT !.phase = "returned", !.settled = result,
              !.outcomes = Append(@, "ok")]

(* -------------------- error-handler.ts: TabManager ------------------- *)
\* (mutant) a source as old as MAX_INACTIVE_TIME is removed as well
cleanupInactiveSourcesAtBound(sources, time) ==
    LET toRemove == {tabId \in DOMAIN sources :
                        time - sources[tabId].lastSeen >= MAX_INACTIVE_TIME}
    IN  [tabId \in DOMAIN sources \ toRemove |-> sources[tabId]]

\* cleanupInactiveSources at Date.now() = time: the sources seen more than
\* MAX_INACTIVE_TIME ago are collected, then deleted
cleanupInactiveSources(sources, time) ==
    LET toRemove == {tabId \in DOMAIN sources :
                        time - sources[tabId].lastSeen > MAX_INACTIVE_TIME}
    IN  [tabId \in DOMAIN sources \ toRemove |-> sources[tabId]]

\* updateAudioState at Date.now() = time: nothing for a tab that is not
\* known, else a new AudioSource for the tab
updateAudioState(tabs, sources, tabId, audioState, time) ==
    IF tabId \notin tabs THEN sources
    ELSE MapSet(sources, tabId,
                [tabId |-> tabId, audioState |-> audioState, lastSeen |-> time])

(* ------------------------------- state ------------------------------- *)
VARIABLES
    running,          \* the host process has not exited
    disconnected,     \* the 'disconnect' event has been emitted
    closed,           \* the peer has closed its end of the pipe
    wire,             \* bytes the peer has written, not yet in stdin's buffer
    stdinBuf,         \* stdin's internal buffer: arrived, not yet read()
    readablePending,  \* a 'readable' event is waiting to be delivered
    pc,               \* "idle", or "loop": inside processIncomingData's while
    messageBuffer,    \* NativeMessagingProtocol.messageBuffer
    expectedLength,   \* NativeMessagingProtocol.expectedLength
    isProcessing,     \* NativeMessagingProtocol.isProcessing
    calls,            \* the validateAndRespond calls so far
    stdout,           \* the responses written, in order
    nextId,           \* generateMessageId's supply of fresh ids
    consumed,         \* history: bytes the framer has taken off messageBuffer
    delivered,        \* history: payloads handed to handleIncomingMessage
    sent,             \* history: the frames the peer wrote, with their offsets
    stream,           \* history: all the bytes the peer has written
    nSent,            \* history: writes of the peer
    bigAt,            \* history: offset where the payload of a frame declared
                      \*   >= maxMessageSize starts; -1 when there is none
    bigLen,           \* history: that frame's declared length
    batch,            \* history: frames the latest read() handed over
    reentered,        \* history: a processIncomingData call found isProcessing set
    throws,           \* history: exceptions caught by processIncomingData
    request,          \* validator alone: the payload of the request at hand
    verdict,          \* validator alone: what validateRequest made of it
    outcomes,         \* validator alone: what the handler can settle with
    controller,       \* a VolumeModeController (the popup's, the test page's)
    storage,          \* chrome.storage.local's volumeModeSettings; {} when unset
    loadResult,       \* what storage.get has read and not yet delivered
    last,             \* history: the latest call on the controller, and the
                      \*   controller as it was before it
    nOps,             \* history: calls made on the controller
    nAdds,            \* history: addSource calls
    notifications,    \* the calls made to the callbacks given to setCallbacks
    heap,             \* background: the AudioSource objects that can still
                      \*   be reached
    audioSources,     \* background: the registry, keys and references to
                      \*   heap objects in insertion order
    tabToProcessMap,  \* background: tab id -> process id
    processToSourceMap, \* background: process id -> source
    tasks,            \* background: the volume shortcuts suspended at the
                      \*   await inside their loop, each with the sources
                      \*   its loop has yet to come to
    lifecycle,        \* history: each tab's latest lifecycle event
    lastEvent,        \* history: the latest step of the background; for a
                      \*   started or stopped event its tab, and for a started
                      \*   event also its title, what the registry held for
                      \*   the tab and the tab's lifecycle event before it
    nEvents,          \* history: messages and events received
    sending,          \* background: the tabs with a chrome.tabs.sendMessage
                      \*   call of setVolume or setMute not settled yet
    errors,           \* error handler: the history, each ExtensionError
                      \*   known by the number of its handleError call
    retry,            \* error handler: the retry call in progress or settled,
                      \*   with the outcome of each invocation it made
    handled,          \* history: the errors handled since the last
                      \*   clearErrors, in the order they were handled
    nHandled,         \* history: handleError calls
    clock,            \* tab manager: Date.now(), in ms since its construction
    managerTabs,      \* tab manager: the keys of its tabs map
    managerSources,   \* tab manager: its audioSources map
    managerLast,      \* history: the latest step of the tab manager, and
                      \*   its audioSources before it
    nTicks,           \* history: advances of the clock
    volumeController, \* background: its VolumeModeController
    currentVolumeMode,\* background: its mode variable
    pendingLoad,      \* background: what storage read for its controller's
                      \*   loadSettings, until the callback has run
    answer,           \* history: the latest message to the background, its
                      \*   response, and the registry, mode and
                      \*   controller before it
    popupSources,     \* popup: its audioSources map
    popupUpdate,      \* history: the sources of the latest update the popup
                      \*   handled, none yet being << >>
    shortcutsManager, \* background: its ShortcutsManager, << >> while it has
                      \*   none, else << the manager >>
    commands          \* history: the commands delivered, each with whether
                      \*   the manager was still loading and whether the
                      \*   handler was run

framerVars == << messageBuffer, expectedLength, isProcessing, pc, consumed, delivered, batch >>
stdinVars == << closed, wire, stdinBuf, readablePending >>
peerVars == << sent, stream, nSent, bigAt, bigLen >>
hostVars == << calls, stdout, nextId >>
validatorVars == << request, verdict, outcomes >>
\* what no step of the native host touches
controllerVars == << controller, storage, loadResult, last, nOps, nAdds, notifications >>
backgroundVars == << heap, audioSources, tabToProcessMap, processToSourceMap,
                     tasks, lifecycle, lastEvent, nEvents, sending >>
errorVars == << errors, retry, handled, nHandled >>
managerVars == << clock, managerTabs, managerSources, managerLast, nTicks >>
commandVars == << volumeController, currentVolumeMode, pendingLoad, answer >>
\* the components that came last
popupVars == << popupSources, popupUpdate >>
shortcutVars == << shortcutsManager, commands >>
restVars == << managerVars, commandVars, popupVars, shortcutVars >>
nonHostVars == << validatorVars, controllerVars, backgroundVars, errorVars, restVars >>
\* what no call on the controller touches
hostSideVars == << running, disconnected, framerVars, stdinVars, peerVars, hostVars,
                  reentered, throws, validatorVars, backgroundVars, errorVars, restVars >>
\* what no step of the background script touches
nonBackgroundVars == << running, disconnected, framerVars, stdinVars, peerVars, hostVars,
                        reentered, throws, validatorVars, controllerVars, errorVars,
                        restVars >>
\* what no step of the error handler touches
nonErrorVars == << running, disconnected, framerVars, stdinVars, peerVars, hostVars,
                   reentered, throws, validatorVars, controllerVars, backgroundVars,
                   restVars >>
\* what no step of the tab manager touches
nonManagerVars == << running, disconnected, framerVars, stdinVars, peerVars, hostVars,
                     reentered, throws, validatorVars, controllerVars, backgroundVars,
                     errorVars, commandVars, popupVars, shortcutVars >>
\* what no message or shortcut of the background touches: its controller
\* writes the settings that the popup's reads (storage)
nonCommandVars == << running, disconnected, framerVars, stdinVars, peerVars, hostVars,
                     reentered, throws, validatorVars, controller, loadResult, last,
                     nOps, nAdds, notifications, errorVars, managerVars, popupVars,
                     shortcutVars >>
\* what an update of the popup's sources does not touch
nonPopupVars == << running, disconnected, framerVars, stdinVars, peerVars, hostVars,
                   reentered, throws, validatorVars, storage, loadResult, nOps, nAdds,
                   notifications, backgroundVars, errorVars, managerVars, commandVars,
                   shortcutVars >>
\* what the shortcuts manager does not touch
nonShortcutVars == << running, disconnected, framerVars, stdinVars, peerVars, hostVars,
                      reentered, throws, validatorVars, controllerVars, backgroundVars,
                      errorVars, managerVars, commandVars, popupVars >>
vars == << running, disconnected, framerVars, stdinVars, peerVars, hostVars,
           reentered, throws, nonHostVars >>

\* The requests the peer sends: two well-formed ones (the second without an
\* id and with a timeout of its own) and two that fail validation, with an
\* id and without.
Requests ==
    { << LBRACE, 3, 10, 20, RBRACE >>,
      << LBRACE, 1, 51, RBRACE >>,
      << LBRACE, 2, 11, 20, 31, RBRACE >>,
      << LBRACE, 2, 20, 31, RBRACE >> }

\* The payloads the peer sends when framing is under test: a well-formed
\* request, and three payloads that are no JSON object ("{", the empty
\* payload, "1").
Payloads ==
    { << LBRACE, 3, 20, RBRACE >>,
      << LBRACE >>,
      << >>,
      << DIGIT1 >> }

InitHost ==
    /\ running = TRUE
    /\ disconnected = FALSE
    /\ closed = FALSE
    /\ wire = << >>
    /\ stdinBuf = << >>
    /\ readablePending = FALSE
    /\ pc = "idle"
    /\ messageBuffer = << >>
    /\ expectedLength = -1
    /\ isProcessing = FALSE
    /\ calls = << >>
    /\ stdout = << >>
    /\ nextId = 1
    /\ consumed = 0
    /\ delivered = << >>
    /\ sent = << >>
    /\ stream = << >>
    /\ batch = 0
    /\ nSent = 0
    /\ bigAt = -1
    /\ bigLen = 0
    /\ reentered = FALSE
    /\ throws = 0

\* No request is at hand in the validator taken alone.
InitValidator ==
    /\ request = << >>
    /\ verdict = "unchecked"
    /\ outcomes = {}

\* What chrome.storage.local may hold under volumeModeSettings when the
\* controller is constructed: nothing, or settings saved earlier
StoredSettings ==
    { {}, {[mode |-> "linked", masterVolume |-> 50, muteAll |-> FALSE]} }

\* The sources handed to addSource: volume and muted
AddedSources ==
    { [volume |-> 6, muted |-> FALSE], [volume |-> 27, muted |-> TRUE],
      [volume |-> 50, muted |-> FALSE], [volume |-> 100, muted |-> FALSE] }

\* The volumes asked for, in range and out of it
RequestedVolumes == {-10, 0, 13, 100, 150}

\* The master volumes asked for
MasterVolumes == {50, 150}

InitController ==
    /\ controller = NewController
    /\ storage = {}
    /\ loadResult = {storage}
    /\ last = [op |-> "new", tabId |-> 0, volume |-> 0, before |-> NewController]
    /\ nOps = 0
    /\ nAdds = 0
    /\ notifications = << >>

\* The tabs of the browser that come to play audio
Tabs == {1, 2}

\* The volumes the popup's setVolume message carries
MessageVolumes == {0, 150}

\* background.ts as loaded: no source, no mapping, no shortcut under way
InitBackground ==
    /\ heap = << >>
    /\ audioSources = << >>
    /\ tabToProcessMap = EmptyMap
    /\ processToSourceMap = EmptyMap
    /\ tasks = << >>
    /\ lifecycle = [t \in Tabs |-> "none"]
    /\ lastEvent = [event |-> "loaded", tabId |-> 0, title |-> "",
                    before |-> {}, was |-> "none"]
    /\ nEvents = 0
    /\ sending = {}

InitErrorHandler ==
    /\ errors = << >>
    /\ retry = NoRetry
    /\ handled = << >>
    /\ nHandled = 0

InitTabManager ==
    /\ clock = 0
    /\ managerTabs = {}
    /\ managerSources = EmptyMap
    /\ managerLast = [event |-> "new", before |-> EmptyMap]
    /\ nTicks = 0

\* background.ts as loaded, for its controller and mode: loadSettings has
\* asked storage for the settings
InitCommands ==
    /\ volumeController = NewController
    /\ currentVolumeMode = "independent"
    /\ pendingLoad = {storage}
    /\ answer = [action |-> "loaded", tabId |-> 0,
                 response |-> [success |-> TRUE, error |-> ""],
                 before |-> [sources |-> EmptyMap,
                             currentVolumeMode |-> "independent",
                             volumeController |-> NewController]]

\* The popup as opened: no source yet
InitPopup ==
    /\ popupSources = EmptyMap
    /\ popupUpdate = << >>

\* background.ts as loaded: `let shortcutsManager` has no value
InitShortcuts ==
    /\ shortcutsManager = << >>
    /\ commands = << >>

\* The components that came last, as constructed
InitRest ==
    /\ InitTabManager
    /\ InitCommands
    /\ InitPopup
    /\ InitShortcuts

Init ==
    /\ InitHost
    /\ InitValidator
    /\ InitController
    /\ InitBackground
    /\ InitErrorHandler
    /\ InitRest

(* ------------------------- the peer and stdin ------------------------ *)
\* The peer writes one frame, once its earlier writes have reached stdin
\* (bytes of several writes still pile up in stdin's buffer, so this loses
\* no chunking).  After a frame declared >= maxMessageSize its writes are
\* bytes of that frame's payload.
SendFrame(payload) ==
    /\ running /\ ~closed /\ nSent < MaxFrames /\ wire = << >>
    /\ wire' = wire \o EncodeFrame(payload)
    /\ sent' = IF bigAt = -1
               THEN Append(sent, [payload |-> payload, at |-> Len(stream) + 4])
               ELSE sent
    /\ stream' = stream \o EncodeFrame(payload)
    /\ nSent' = nSent + 1
    /\ UNCHANGED << running, disconnected, framerVars, closed, stdinBuf, readablePending,
                    bigAt, bigLen, hostVars, reentered, throws >>
    /\ UNCHANGED nonHostVars

\* The peer starts a frame whose declared length is the maximum, or one more.
SendBigPrefix(n) ==
    /\ running /\ ~closed /\ nSent < MaxFrames /\ wire = << >> /\ bigAt = -1
    /\ wire' = wire \o writeUInt32LE(n)
    /\ bigAt' = Len(stream) + 4
    /\ bigLen' = n
    /\ stream' = stream \o writeUInt32LE(n)
    /\ nSent' = nSent + 1
    /\ UNCHANGED << running, disconnected, framerVars, closed, stdinBuf, readablePending,
                    sent, hostVars, reentered, throws >>
    /\ UNCHANGED nonHostVars

\* The peer closes the pipe.
CloseStdin ==
    /\ running /\ ~closed
    /\ closed' = TRUE
    /\ readablePending' = TRUE
    /\ UNCHANGED << running, disconnected, framerVars, wire, stdinBuf, peerVars, hostVars,
                    reentered, throws >>
    /\ UNCHANGED nonHostVars

\* The next k bytes reach stdin's buffer; stdin schedules 'readable'.
Arrive(k) ==
    /\ running
    /\ stdinBuf' = stdinBuf \o Take(wire, k)
    /\ wire' = Drop(wire, k)
    /\ readablePending' = TRUE
    /\ UNCHANGED << running, disconnected, framerVars, closed, peerVars, hostVars,
                    reentered, throws >>
    /\ UNCHANGED nonHostVars

(* -------------------------- the error handler ------------------------ *)
\* The operation types retry is called with, and the custom configurations
OperationTypes == {"native_messaging", "audio_control", "permission", "test"}
CustomConfigs == { {}, {2} }

\* What the operation rejects with
OperationErrors == {"E1", "E2"}

\* handleError adds the error to the history (its log and status
\* notification are left out)
Handles ==
    /\ nHandled < MaxHandled
    /\ nHandled' = nHandled + 1
    /\ errors' = addToErrorHistory(errors, nHandled + 1)
    /\ handled' = Append(handled, nHandled + 1)

\* errorHandler.handleError(error, ...) called from outside retry
HandleError ==
    /\ Handles
    /\ UNCHANGED retry
    /\ UNCHANGED nonErrorVars

\* clearErrors()
ClearErrors ==
    /\ errors # << >>
    /\ errors' = << >>
    /\ handled' = << >>
    /\ UNCHANGED << retry, nHandled >>
    /\ UNCHANGED nonErrorVars

\* handleError twice in a row
HandlesTwice ==
    /\ nHandled + 1 < MaxHandled
    /\ nHandled' = nHandled + 2
    /\ errors' = addToErrorHistory(addToErrorHistory(errors, nHandled + 1), nHandled + 2)
    /\ handled' = handled \o << nHandled + 1, nHandled + 2 >>

\* retry runs on from r to its next await or to its end: having left the
\* loop it hands lastError to handleError and throws it; the catch block
\* of a wrapOperation that called it hands what was thrown to handleError
\* as well, and throws what this returns
RetryRuns(r) ==
    IF r.phase = "exhausted"
    THEN /\ IF r.wrapped THEN HandlesTwice ELSE Handles
         /\ retry' = [r EXCEPT !.phase = "rejected", !.settled = r.lastError,
                               !.reported = IF r.wrapped THEN 2 ELSE 1]
    ELSE /\ retry' = r
         /\ UNCHANGED << errors, handled, nHandled >>

\* retry(operation, operationType, customConfig) is called, no other retry
\* being in progress, and invokes the operation
RetryStarts(operationType, customConfig) ==
    /\ retry.phase \in {"idle", "returned", "rejected"}
    /\ RetryRuns(retryLoop([NoRetry EXCEPT
                     !.maxAttempts = configMaxAttempts(operationType, customConfig),
                     !.attempt = 1]))
    /\ UNCHANGED nonErrorVars

\* wrapOperation(operation, operationType) with retryable left at true:
\* it awaits retry(operation, operationType)
WrapOperationStarts(operationType) ==
    /\ retry.phase \in {"idle", "returned", "rejected"}
    /\ RetryRuns(retryLoop([NoRetry EXCEPT
                     !.maxAttempts = configMaxAttempts(operationType, {}),
                     !.attempt = 1,
                     !.wrapped = TRUE]))
    /\ UNCHANGED nonErrorVars

\* The awaited operation resolves
OperationResolves ==
    /\ retry.phase = "awaiting"
    /\ RetryRuns(retryReturn(retry, "success"))
    /\ UNCHANGED nonErrorVars

\* The awaited operation rejects, or threw when it was invoked
OperationRejects(error) ==
    /\ retry.phase = "awaiting"
    /\ RetryRuns(retryCatch(retry, error))
    /\ UNCHANGED nonErrorVars

\* The timer of sleep(delay) fires: attempt++ and the loop goes on
SleepEnds ==
    /\ retry.phase = "sleeping"
    /\ RetryRuns(retryLoop([retry EXCEPT !.attempt = @ + 1]))
    /\ UNCHANGED nonErrorVars

ErrorHandlerNext ==
    \/ HandleError
    \/ ClearErrors
    \/ \E operationType \in OperationTypes, customConfig \in CustomConfigs :
          RetryStarts(operationType, customConfig)
    \/ \E operationType \in OperationTypes : WrapOperationStarts(operationType)
    \/ OperationResolves
    \/ \E error \in OperationErrors : OperationRejects(error)
    \/ SleepEnds

ErrorHandlerSpec == Init /\ [][ErrorHandlerNext]_vars

(* --------------------------- the tab manager ------------------------- *)
\* How long the clock goes on between two steps: a moment, the time
\* between two cleanups, the time a source may stay unseen
Passing == {1, CLEANUP_INTERVAL, MAX_INACTIVE_TIME}

\* The audio states reported: isPlaying
AudioStates == {TRUE, FALSE}

\* One step of the tab manager, leaving its maps as tabs and sources
ManagerStep(event, tabs, sources) ==
    /\ managerTabs' = tabs
    /\ managerSources' = sources
    /\ managerLast' = [event |-> event, before |-> managerSources]
    /\ UNCHANGED << clock, nTicks >>
    /\ UNCHANGED nonManagerVars

\* Time passes
TimePasses(ms) ==
    /\ nTicks < MaxTicks
    /\ nTicks' = nTicks + 1
    /\ clock' = clock + ms
    /\ managerLast' = [event |-> "time", before |-> managerSources]
    /\ UNCHANGED << managerTabs, managerSources >>
    /\ UNCHANGED nonManagerVars

\* chrome.tabs.onCreated: updateTabInfo enters the tab in tabs
ManagerTabCreated(tabId) ==
    /\ tabId \notin managerTabs
    /\ ManagerStep("created", managerTabs \cup {tabId}, managerSources)

\* chrome.tabs.onRemoved: handleTabRemoved
ManagerTabRemoved(tabId) ==
    /\ tabId \in managerTabs
    /\ ManagerStep("removed", managerTabs \ {tabId}, MapDelete(managerSources, tabId))

\* updateAudioState(tabId, audioState)
UpdateAudioState(tabId, audioState) ==
    ManagerStep("audio", managerTabs,
        updateAudioState(managerTabs, managerSources, tabId, audioState, clock))

\* The interval timer started by startCleanupTimer fires, not before
\* CLEANUP_INTERVAL has passed
CleanupTimerFires ==
    /\ clock >= CLEANUP_INTERVAL
    /\ ManagerStep("cleanup", managerTabs, cleanupInactiveSources(managerSources, clock))

TabManagerNext ==
    \/ \E ms \in Passing : TimePasses(ms)
    \/ \E t \in Tabs : ManagerTabCreated(t)
    \/ \E t \in Tabs : ManagerTabRemoved(t)
    \/ \E t \in Tabs, audioState \in AudioStates : UpdateAudioState(t, audioState)
    \/ CleanupTimerFires

TabManagerSpec == Init /\ [][TabManagerNext]_vars

(* ------------------------------ the host ----------------------------- *)
Host == [calls |-> calls, stdout |-> stdout, nextId |-> nextId]

SetHost(h) ==
    /\ calls' = h.calls
    /\ stdout' = h.stdout
    /\ nextId' = h.nextId

MessageEvents(events) == SelectSeq(events, LAMBDA e : e.type = "message")

\* (mutant) processIncomingData without its isProcessing check: a call made
\* while another is in its loop reads and frames what is buffered, and its
\* finally block clears isProcessing under the outer call.
ProcessIncomingDataUnguarded ==
    /\ running /\ readablePending
    /\ readablePending' = FALSE
    /\ IF isProcessing
       THEN \E st \in {processMessages(
                          FramerState(messageBuffer \o stdinBuf, expectedLength, consumed))} :
               /\ stdinBuf' = << >>
               /\ messageBuffer' = st.messageBuffer
               /\ expectedLength' = st.expectedLength
               /\ consumed' = st.consumed
               /\ delivered' = delivered \o MessageEvents(st.events)
               /\ batch' = Len(MessageEvents(st.events))
               /\ SetHost(HandleEvents(Host, st.events))
               /\ isProcessing' = FALSE
               /\ reentered' = TRUE
               /\ UNCHANGED pc
       ELSE /\ isProcessing' = TRUE
            /\ pc' = "loop"
            /\ UNCHANGED << reentered, messageBuffer, expectedLength, consumed, delivered,
                            batch, stdinBuf, hostVars >>
    /\ UNCHANGED << running, disconnected, closed, wire, peerVars, throws >>
    /\ UNCHANGED nonHostVars

\* stdin's 'readable' listener calls processIncomingData: it returns at once
\* when isProcessing is set, else sets it and enters the read loop.
ProcessIncomingData ==
    /\ running /\ readablePending
    /\ readablePending' = FALSE
    /\ IF isProcessing
       THEN /\ reentered' = TRUE
            /\ UNCHANGED << isProcessing, pc >>
       ELSE /\ isProcessing' = TRUE
            /\ pc' = "loop"
            /\ UNCHANGED reentered
    /\ UNCHANGED << running, disconnected, messageBuffer, expectedLength, consumed,
                    delivered, batch, closed, wire, stdinBuf, peerVars, hostVars, throws >>
    /\ UNCHANGED nonHostVars

\* One turn of `while ((chunk = process.stdin.read()) !== null)`: read()
\* gives all that is buffered, which is appended and framed, every complete
\* frame going through its listeners; or read() gives null, the loop ends
\* and the finally block clears isProcessing.
ReadChunk ==
    /\ running /\ pc = "loop"
    /\ IF stdinBuf = << >>
       THEN /\ isProcessing' = FALSE
            /\ pc' = "idle"
            /\ UNCHANGED << messageBuffer, expectedLength, consumed, delivered, batch,
                            stdinBuf, hostVars >>
       ELSE \E st \in {processMessages(
                          FramerState(messageBuffer \o stdinBuf, expectedLength, consumed))} :
               /\ stdinBuf' = << >>
               /\ messageBuffer' = st.messageBuffer
               /\ expectedLength' = st.expectedLength
               /\ consumed' = st.consumed
               /\ delivered' = delivered \o MessageEvents(st.events)
               /\ batch' = Len(MessageEvents(st.events))
               /\ SetHost(HandleEvents(Host, st.events))
               /\ UNCHANGED << isProcessing, pc >>
    /\ UNCHANGED << running, disconnected, closed, wire, readablePending, peerVars,
                    reentered, throws >>
    /\ UNCHANGED nonHostVars

\* An exception inside the try block (read() or Buffer.concat throwing): the
\* catch emits 'error', which the host answers, and the finally block
\* clears isProcessing.
ReadThrows ==
    /\ running /\ pc = "loop" /\ throws < MaxThrows
    /\ throws' = throws + 1
    /\ SetHost(onError(Host, "read failed"))
    /\ isProcessing' = FALSE
    /\ pc' = "idle"
    /\ UNCHANGED << running, disconnected, messageBuffer, expectedLength, consumed,
                    delivered, batch, stdinVars, peerVars, reentered >>
    /\ UNCHANGED nonHostVars

\* (mutant) at end of input the bytes still buffered are handed over as a
\* last message before the host exits.
StdinEndFlush ==
    /\ running /\ closed /\ wire = << >> /\ stdinBuf = << >> /\ pc = "idle"
    /\ disconnected' = TRUE
    /\ running' = FALSE
    /\ IF messageBuffer = << >>
       THEN UNCHANGED << delivered, hostVars >>
       ELSE /\ delivered' = Append(delivered,
                   [type |-> "message", data |-> messageBuffer, at |-> consumed,
                    length |-> expectedLength])
            /\ SetHost(handleIncomingMessage(Host, messageBuffer))
    /\ UNCHANGED << messageBuffer, expectedLength, isProcessing, pc, consumed, batch,
                    stdinVars, peerVars, reentered, throws >>
    /\ UNCHANGED nonHostVars

\* stdin's 'end' (all input read, the pipe closed): emit 'disconnect', whose
\* listener shuts the host down, and process.exit(0).
StdinEnd ==
    /\ running /\ closed /\ wire = << >> /\ stdinBuf = << >> /\ pc = "idle"
    /\ disconnected' = TRUE
    /\ running' = FALSE
    /\ UNCHANGED << framerVars, stdinVars, peerVars, hostVars, reentered, throws >>
    /\ UNCHANGED nonHostVars

\* The handler of call r resolves with its data.
HandlerResolves(r) ==
    /\ running /\ pc = "idle"
    /\ r \in 1..Len(calls)
    /\ calls[r].handler = "running"
    /\ \E o \in processMessage(calls[r].message) :
          /\ o.ok
          /\ SetHost(PromiseRaceSettle(
                 [Host EXCEPT !.calls[r].handler = "resolved", !.calls[r].result = o.value,
                              !.calls[r].first = IF @ = "" THEN "resolved" ELSE @],
                 r, TRUE, o.value))
    /\ UNCHANGED << running, disconnected, framerVars, stdinVars, peerVars, reentered, throws >>
    /\ UNCHANGED nonHostVars

\* The handler of call r rejects.
HandlerRejects(r) ==
    /\ running /\ pc = "idle"
    /\ r \in 1..Len(calls)
    /\ calls[r].handler = "running"
    /\ \E o \in processMessage(calls[r].message) :
          /\ ~o.ok
          /\ SetHost(PromiseRaceSettle(
                 [Host EXCEPT !.calls[r].handler = "rejected", !.calls[r].result = o.value,
                              !.calls[r].first = IF @ = "" THEN "rejected" ELSE @],
                 r, FALSE, o.value))
    /\ UNCHANGED << running, disconnected, framerVars, stdinVars, peerVars, reentered, throws >>
    /\ UNCHANGED nonHostVars

\* The timer of call r fires: reject(new Error('Request timeout')).
TimerFires(r) ==
    /\ running /\ pc = "idle"
    /\ r \in 1..Len(calls)
    /\ calls[r].timer = "armed"
    /\ SetHost(PromiseRaceSettle(
           [Host EXCEPT !.calls[r].timer = "fired",
                        !.calls[r].first = IF @ = "" THEN "timer" ELSE @],
           r, FALSE, "Request timeout"))
    /\ UNCHANGED << running, disconnected, framerVars, stdinVars, peerVars, reentered, throws >>
    /\ UNCHANGED nonHostVars

(* ------------------ a VolumeModeController in use -------------------- *)
ControllerInit ==
    /\ InitHost
    /\ InitValidator
    /\ InitBackground
    /\ InitErrorHandler
    /\ controller = NewController
    /\ storage \in StoredSettings
    /\ loadResult = {storage}
    /\ last = [op |-> "new", tabId |-> 0, volume |-> 0, before |-> NewController]
    /\ nOps = 0
    /\ nAdds = 0
    /\ notifications = << >>
    /\ InitRest

\* One call on the controller: op with its arguments, giving controller c
\* and, when save is set, writing its settings to storage.  setCallbacks
\* keeps neither of its arguments and no method of the controller calls
\* one, so that no call adds to notifications.
ControllerCall(op, tabId, volume, c, save) ==
    /\ nOps < MaxOps
    /\ nOps' = nOps + 1
    /\ controller' = c
    /\ storage' = IF save THEN {c.settings} ELSE storage
    /\ last' = [op |-> op, tabId |-> tabId, volume |-> volume, before |-> controller]
    /\ UNCHANGED << loadResult, nAdds, notifications >>
    /\ UNCHANGED hostSideVars

\* chrome.storage.local.get delivers what it read to loadSettings' callback
SettingsLoaded ==
    /\ loadResult # {}
    /\ \E stored \in loadResult :
          /\ controller' = loadSettings(controller, stored)
          /\ last' = [op |-> "loadSettings", tabId |-> 0, volume |-> 0, before |-> controller]
    /\ loadResult' = {}
    /\ UNCHANGED << storage, nOps, nAdds, notifications >>
    /\ UNCHANGED hostSideVars

\* addSource(source), as the popup calls it for each source of an update;
\* the tabs that come to play are numbered in the order they are added
AddSource(tabId, source) ==
    /\ nAdds < MaxSources
    /\ tabId = nAdds + 1
    /\ nAdds' = nAdds + 1
    /\ controller' = addSource(controller,
                         [tabId |-> tabId, volume |-> source.volume, muted |-> source.muted])
    /\ last' = [op |-> "addSource", tabId |-> tabId, volume |-> source.volume,
                before |-> controller]
    /\ UNCHANGED << storage, loadResult, nOps, notifications >>
    /\ UNCHANGED hostSideVars

SetSourceVolume(tabId, volume) ==
    ControllerCall("setVolume", tabId, volume, setVolume(controller, tabId, volume), FALSE)

\* setSourceMute with the opposite of the source's muted flag, as the
\* popup's toggleSourceMute calls it
SetSourceMute(tabId) ==
    ControllerCall("setSourceMute", tabId, 0,
        setSourceMute(controller, tabId,
            IF tabId \in DOMAIN controller.sources THEN ~controller.sources[tabId].muted
            ELSE TRUE),
        FALSE)

SetMasterVolume(volume) ==
    ControllerCall("setMasterVolume", 0, volume, setMasterVolume(controller, volume), TRUE)

ToggleMuteAll ==
    ControllerCall("toggleMuteAll", 0, 0, toggleMuteAll(controller), TRUE)

\* setMasterMute(!isMasterMuted()), as the popup's mute-all button calls it
SetMasterMute ==
    ControllerCall("setMasterMute", 0, 0,
        setMasterMute(controller, ~controller.settings.muteAll), TRUE)

SetMode(mode) ==
    ControllerCall("setMode", 0, 0, setMode(controller, mode), TRUE)

ControllerNext ==
    \/ SettingsLoaded
    \/ \E t \in 1..MaxSources, source \in AddedSources : AddSource(t, source)
    \/ \E t \in 1..MaxSources, v \in RequestedVolumes : SetSourceVolume(t, v)
    \/ \E t \in 1..MaxSources : SetSourceMute(t)
    \/ \E v \in MasterVolumes : SetMasterVolume(v)
    \/ ToggleMuteAll
    \/ SetMasterMute
    \/ \E mode \in VolumeModes : SetMode(mode)

ControllerSpec == ControllerInit /\ [][ControllerNext]_vars

(* ----------- a controller with its sources, in every mode ---------- *)
\* The tabs whose sources a controller may hold
HeldTabs == {1, 2, 3}

\* The volumes asked of a controller that holds its sources
HeldVolumes == {-10, 0, 80, 90, 100}

\* The controllers that setMode and then addSource, for none to all of
\* HeldTabs, leave: in any mode, each source as it was handed in
HeldControllers ==
    { [mode |-> mode,
       sources |-> sources,
       settings |-> [mode |-> mode, masterVolume |-> 100, muteAll |-> FALSE]] :
          mode \in VolumeModes,
          sources \in {EmptyMap} \cup UNION {
              { [t \in 1..n |-> [tabId |-> t, volume |-> f[t].volume, muted |-> f[t].muted]] :
                    f \in [1..n -> AddedSources] } : n \in 1..Cardinality(HeldTabs) } }

ModesInit ==
    /\ InitHost
    /\ InitValidator
    /\ InitBackground
    /\ InitErrorHandler
    /\ controller \in HeldControllers
    /\ storage = {controller.settings}
    /\ loadResult = {}
    /\ last = [op |-> "new", tabId |-> 0, volume |-> 0, before |-> NewController]
    /\ nOps = 0
    /\ nAdds = Cardinality(DOMAIN controller.sources)
    /\ notifications = << >>
    /\ InitRest

ModesNext ==
    \/ \E t \in HeldTabs, v \in HeldVolumes : SetSourceVolume(t, v)
    \/ \E mode \in VolumeModes : SetMode(mode)

ModesSpec == ModesInit /\ [][ModesNext]_vars

(* ------------------------ the validator alone ----------------------- *)
Optional(tokens) == {<< >>} \cup {<< t >> : t \in tokens}

\* Requests of every shape: any action or none, and any of the sourceId,
\* volume, muted and mode members of TOKENS or none.
ValidatorRequests ==
    { << LBRACE >> \o a \o s \o v \o m \o d \o << RBRACE >> :
        a \in Optional(1..7), s \in Optional(20..23), v \in Optional(30..35),
        m \in Optional(40..42), d \in Optional({60}) }

ValidatorInit ==
    /\ InitHost
    /\ InitController
    /\ InitBackground
    /\ InitErrorHandler
    /\ InitRest
    /\ request \in ValidatorRequests
    /\ verdict = "unchecked"
    /\ outcomes = {}

\* validateAndRespond's `MessageValidator.validateRequest(message)`
Validate ==
    /\ verdict = "unchecked"
    /\ verdict' = validateRequest(ParseJSON(request).obj)
    /\ UNCHANGED << request, outcomes >>
    /\ UNCHANGED << running, disconnected, framerVars, stdinVars, peerVars, hostVars,
                    reentered, throws, controllerVars, backgroundVars, errorVars,
                    restVars >>

\* validateAndRespond's `handler()` for a message that passed
Dispatch ==
    /\ verdict = "" /\ outcomes = {}
    /\ outcomes' = processMessage(ParseJSON(request).obj)
    /\ UNCHANGED << request, verdict >>
    /\ UNCHANGED << running, disconnected, framerVars, stdinVars, peerVars, hostVars,
                    reentered, throws, controllerVars, backgroundVars, errorVars,
                    restVars >>

ValidatorNext == Validate \/ Dispatch

ValidatorSpec == ValidatorInit /\ [][ValidatorNext]_vars

(* ----------------------- the background script ---------------------- *)
\* The background's registry and maps as one value
Background ==
    [heap |-> heap,
     audioSources |-> audioSources,
     tabToProcessMap |-> tabToProcessMap,
     processToSourceMap |-> processToSourceMap]

\* One message or browser event handled by the background, leaving its
\* memory as b and the suspended shortcuts as ts: what becomes of the
\* registry and its history
BackgroundHandles(event, tabId, title, b, ts) ==
    /\ nEvents < MaxEvents
    /\ nEvents' = nEvents + 1
    /\ \E c \in {Collected(b, ts)} :
          /\ heap' = c.heap
          /\ audioSources' = c.audioSources
          /\ tabToProcessMap' = c.tabToProcessMap
          /\ processToSourceMap' = c.processToSourceMap
          /\ tasks' = c.tasks
    /\ lifecycle' = IF event \in {"started", "stopped", "closed", "navigated"}
                    THEN [lifecycle EXCEPT ![tabId] = event]
                    ELSE lifecycle
    /\ lastEvent' = IF event = "started"
                    THEN [event |-> event, tabId |-> tabId, title |-> title,
                          before |-> Tracked(Background, tabId),
                          was |-> lifecycle[tabId]]
                    ELSE [event |-> event,
                          tabId |-> IF event = "stopped" THEN tabId ELSE 0,
                          title |-> "", before |-> {}, was |-> "none"]
    /\ sending' = IF event \in {"setVolume", "setMute"} /\ RegistryHas(audioSources, tabId)
                  THEN sending \cup {tabId}
                  ELSE sending

\* with the registry alone in view
BackgroundEvent(event, tabId, title, b, ts) ==
    /\ BackgroundHandles(event, tabId, title, b, ts)
    /\ UNCHANGED nonBackgroundVars

\* The promise of a chrome.tabs.sendMessage call settles, fulfilled or
\* rejected: its .then or its .catch runs.  Calls to the same tab are kept
\* once: the handlers of setVolume's and of setMute's promise differ in the
\* text they log only.  A reply only logs and is not an event that
\* lastEvent keeps.
SendSettles(s, event, b) ==
    /\ s \in sending
    /\ sending' = sending \ {s}
    /\ \E c \in {Collected(b, tasks)} :
          /\ heap' = c.heap
          /\ audioSources' = c.audioSources
          /\ tabToProcessMap' = c.tabToProcessMap
          /\ processToSourceMap' = c.processToSourceMap
          /\ tasks' = c.tasks
    /\ lastEvent' = IF event = "failed"
                    THEN [event |-> event, tabId |-> s, title |-> "",
                          before |-> Tracked(Background, s), was |-> "none"]
                    ELSE lastEvent
    /\ UNCHANGED << lifecycle, nEvents >>
    /\ UNCHANGED nonBackgroundVars

\* The content script answers a setVolume or setMute message
ContentScriptReplies(s) ==
    SendSettles(s, "replied", Background)

\* The message cannot be delivered (no content script in the tab, tab
\* closed) or the content script's listener throws
ContentScriptFails(s) ==
    SendSettles(s, "failed", onSendFailed(Background, s))

\* onMessage, action 'audioStateChanged', from the content script of a tab
AudioStateChanged(tabId, isPlaying, title) ==
    BackgroundEvent(IF isPlaying THEN "started" ELSE "stopped", tabId, title,
        handleAudioStateChange(Background, tabId, isPlaying, title),
        tasks)

MsgSetVolume(tabId, volume) ==
    BackgroundEvent("setVolume", tabId, "",
        onSetVolume(Background, tabId, volume), tasks)

MsgSetMute(tabId, muted) ==
    BackgroundEvent("setMute", tabId, "",
        onSetMute(Background, tabId, muted), tasks)

\* chrome.tabs.onRemoved
TabRemoved(tabId) ==
    BackgroundEvent("closed", tabId, "",
        onTabGone(Background, tabId), tasks)

\* chrome.tabs.onUpdated with changeInfo.url set
TabNavigated(tabId) ==
    BackgroundEvent("navigated", tabId, "",
        onTabGone(Background, tabId), tasks)

\* A shortcut-volume-all or shortcut-reset-volumes message: the handler
\* takes its snapshot of the registry's values and runs its loop up to the
\* first `await connectToNativeHost()`, or to its end with no source
ShortcutStarts(kind, delta) ==
    LET sources == RegistryValues(audioSources)
    IN  BackgroundEvent(kind, 0, "",
            IF sources = << >> THEN Background
            ELSE ShortcutIteration(Background, kind, delta, sources[1]),
            IF sources = << >> THEN tasks
            ELSE Append(tasks, [kind |-> kind, delta |-> delta,
                                rest |-> Tail(sources)]))

\* The await of a suspended shortcut ends (connected or not): it posts to
\* the port or logs, and runs on to the await of the next iteration or to
\* the end of its loop
ShortcutResumes(j) ==
    /\ j \in 1..Len(tasks)
    /\ \E t \in {tasks[j]} :
       \E c \in {IF t.rest # << >>
                 THEN Collected(
                          ShortcutIteration(Background, t.kind, t.delta, Head(t.rest)),
                          [tasks EXCEPT ![j].rest = Tail(@)])
                 ELSE Collected(
                          Background,
                          [k \in 1..(Len(tasks) - 1) |->
                              IF k < j THEN tasks[k] ELSE tasks[k + 1]])} :
          /\ heap' = c.heap
          /\ audioSources' = c.audioSources
          /\ tasks' = c.tasks
          /\ lastEvent' = [event |-> "resumed", tabId |-> 0, title |-> "",
                           before |-> {}, was |-> "none"]
    /\ UNCHANGED << tabToProcessMap, processToSourceMap, lifecycle, nEvents, sending >>
    /\ UNCHANGED nonBackgroundVars

BackgroundNext ==
    \/ \E t \in Tabs, isPlaying \in BOOLEAN, title \in Titles :
          AudioStateChanged(t, isPlaying, title)
    \/ \E t \in Tabs, v \in MessageVolumes : MsgSetVolume(t, v)
    \/ \E t \in Tabs, muted \in BOOLEAN : MsgSetMute(t, muted)
    \/ \E t \in Tabs : TabRemoved(t)
    \/ \E t \in Tabs : TabNavigated(t)
    \/ \E delta \in {10, -10} : ShortcutStarts("volume-all", delta)
    \/ ShortcutStarts("reset-volumes", 0)
    \/ \E j \in 1..Len(tasks) : ShortcutResumes(j)

BackgroundSpec == Init /\ [][BackgroundNext]_vars

(* ------------------------ the shortcuts manager ---------------------- *)
\* What storage may hold under customShortcuts: nothing, or a shortcut
\* that was disabled
StoredShortcuts ==
    {EmptyMap, [id \in {"mute-all"} |-> FALSE], [id \in {"focus-mode"} |-> FALSE]}

\* The commands the browser delivers: those of the manifest
Commands == defaultShortcuts \cup {"_execute_action"}

\* The shortcuts a settings page enables and disables
UpdatedShortcuts == {"mute-all", "focus-mode"}

\* chrome.runtime.onInstalled: shortcutsManager = new ShortcutsManager()
Installed ==
    /\ shortcutsManager = << >>
    /\ shortcutsManager' = << NewShortcutsManager >>
    /\ UNCHANGED commands
    /\ UNCHANGED nonShortcutVars

\* chrome.storage.local.get resolves and initializeShortcuts runs on
ShortcutsLoaded(stored) ==
    /\ shortcutsManager # << >>
    /\ shortcutsManager[1].loading
    /\ shortcutsManager' = << initializeShortcuts(shortcutsManager[1], stored) >>
    /\ UNCHANGED commands
    /\ UNCHANGED nonShortcutVars

\* updateShortcut(id, {enabled}) on the manager
UpdateShortcut(id, enabled) ==
    /\ shortcutsManager # << >>
    /\ shortcutsManager' = << updateShortcut(shortcutsManager[1], id, enabled) >>
    /\ UNCHANGED commands
    /\ UNCHANGED nonShortcutVars

\* chrome.commands.onCommand: the listener makes a manager when there is
\* none and calls its handleCommand at once
CommandDelivered(command) ==
    /\ Len(commands) < MaxCommands
    /\ \E mgr \in {IF shortcutsManager = << >> THEN NewShortcutsManager
                    ELSE shortcutsManager[1]} :
          /\ shortcutsManager' = << mgr >>
          /\ commands' = Append(commands,
                             [command |-> command,
                              loading |-> mgr.loading,
                              created |-> shortcutsManager = << >>,
                              ran |-> handleCommand(mgr, command)])
    /\ UNCHANGED nonShortcutVars

ShortcutsNext ==
    \/ Installed
    \/ \E stored \in StoredShortcuts : ShortcutsLoaded(stored)
    \/ \E id \in UpdatedShortcuts, enabled \in BOOLEAN : UpdateShortcut(id, enabled)
    \/ \E command \in Commands : CommandDelivered(command)

ShortcutsSpec == Init /\ [][ShortcutsNext]_vars

(* ------------------------ the popup's updates ------------------------ *)
\* The volume and muted flag of a source as an update carries it
UpdatedSources == { [volume |-> 50, muted |-> FALSE], [volume |-> 100, muted |-> TRUE] }

\* The updates the popup is sent: the sources of any of the tabs
SourceUpdates ==
    UNION { [S -> UpdatedSources] : S \in SUBSET Tabs }

\* The popup and its controller as one value
Popup == [audioSources |-> popupSources, volumeController |-> controller]

\* An 'audioSourcesUpdated' message, or the response to getAudioSources:
\* handleAudioSourcesUpdate(sources)
AudioSourcesUpdated(sources) ==
    /\ \E p \in {handleAudioSourcesUpdate(Popup, sources)} :
          /\ popupSources' = p.audioSources
          /\ controller' = p.volumeController
    /\ popupUpdate' = << DOMAIN sources >>
    /\ last' = [op |-> "addSource", tabId |-> 0, volume |-> 0, before |-> controller]
    /\ UNCHANGED nonPopupVars

\* setMode, as the popup's loadStoredSettings calls it with the mode it
\* read, on the sources held
PopupSetMode(mode) ==
    /\ controller' = setMode(controller, mode)
    /\ storage' = {controller'.settings}
    /\ last' = [op |-> "setMode", tabId |-> 0, volume |-> 0, before |-> controller]
    /\ UNCHANGED << loadResult, nOps, nAdds, notifications, popupVars >>
    /\ UNCHANGED << running, disconnected, framerVars, stdinVars, peerVars, hostVars,
                    reentered, throws, validatorVars, backgroundVars, errorVars,
                    managerVars, commandVars, shortcutVars >>

PopupNext ==
    \/ \E sources \in SourceUpdates : AudioSourcesUpdated(sources)
    \/ \E mode \in VolumeModes : PopupSetMode(mode)

PopupSpec == Init /\ [][PopupNext]_vars

(* ------------- the background script's mode and controller ----------- *)
\* The mode of a 'setMode' message; '' is a message without one
MessageModes == VolumeModes \cup {""}

\* The registry, mode and controller a message finds
Found ==
    [sources |-> Sources(Background),
     currentVolumeMode |-> currentVolumeMode,
     volumeController |-> volumeController]

\* One message handled by the background: its registry is left as b, its
\* controller as c, having saved its settings or not, its mode variable as
\* mode, and response is what sendResponse is given
Command(action, tabId, b, c, save, mode, response) ==
    /\ BackgroundHandles(action, tabId, "Song", b, tasks)
    /\ volumeController' = c
    /\ storage' = IF save THEN {c.settings} ELSE storage
    /\ currentVolumeMode' = mode
    /\ answer' = [action |-> action, tabId |-> tabId, response |-> response,
                  before |-> Found]
    /\ UNCHANGED pendingLoad
    /\ UNCHANGED nonCommandVars

Success == [success |-> TRUE, error |-> ""]

\* chrome.storage.local.get delivers what it read to the callback of the
\* background controller's loadSettings
CommandSettingsLoaded ==
    /\ pendingLoad # {}
    /\ \E stored \in pendingLoad :
          volumeController' = loadSettings(volumeController, stored)
    /\ pendingLoad' = {}
    /\ answer' = [answer EXCEPT !.action = "loadSettings", !.before = Found]
    /\ UNCHANGED << currentVolumeMode, storage >>
    /\ UNCHANGED backgroundVars
    /\ UNCHANGED nonCommandVars

\* action 'audioStateChanged'
CommandAudioState(tabId, isPlaying) ==
    Command(IF isPlaying THEN "started" ELSE "stopped", tabId,
        handleAudioStateChange(Background, tabId, isPlaying, "Song"),
        volumeController, FALSE, currentVolumeMode, Success)

\* action 'setVolume'
CommandSetVolume(tabId, volume) ==
    Command("setVolume", tabId, onSetVolume(Background, tabId, volume),
        volumeController, FALSE, currentVolumeMode, onSetResponse(Background, tabId))

\* action 'setMute'
CommandSetMute(tabId, muted) ==
    Command("setMute", tabId, onSetMute(Background, tabId, muted),
        volumeController, FALSE, currentVolumeMode, onSetResponse(Background, tabId))

\* action 'setMode'
CommandSetMode(mode) ==
    Command("setMode", 0, Background, volumeController, FALSE, onSetMode(mode), Success)

\* action 'shortcut-cycle-modes': handleCycleModeShortcut
CommandCycleModes ==
    LET newMode == CycledMode(currentVolumeMode)
    IN  Command("cycle-modes", 0, Background, setMode(volumeController, newMode), TRUE,
            newMode, Success)

\* action 'shortcut-mute-all': handleMuteAllShortcut
CommandMuteAll ==
    Command("mute-all", 0, handleMuteAllShortcut(Background, volumeController),
        toggleMuteAll(volumeController), TRUE, currentVolumeMode, Success)

CommandsNext ==
    \/ CommandSettingsLoaded
    \/ \E t \in Tabs, isPlaying \in BOOLEAN : CommandAudioState(t, isPlaying)
    \/ \E t \in Tabs, v \in MessageVolumes : CommandSetVolume(t, v)
    \/ \E t \in Tabs, muted \in BOOLEAN : CommandSetMute(t, muted)
    \/ \E mode \in MessageModes : CommandSetMode(mode)
    \/ CommandCycleModes
    \/ CommandMuteAll

CommandsSpec == ControllerInit /\ [][CommandsNext]_vars

\* The messages of the popup and the tabs with the settling of what is
\* sent on to the content scripts
ActuatorNext ==
    \/ \E t \in Tabs, isPlaying \in BOOLEAN, title \in Titles :
          AudioStateChanged(t, isPlaying, title)
    \/ \E t \in Tabs, v \in MessageVolumes : MsgSetVolume(t, v)
    \/ \E t \in Tabs, muted \in BOOLEAN : MsgSetMute(t, muted)
    \/ \E t \in Tabs : TabRemoved(t)
    \/ \E t \in Tabs : TabNavigated(t)
    \/ \E s \in sending : ContentScriptReplies(s)
    \/ \E s \in sending : ContentScriptFails(s)

ActuatorSpec == Init /\ [][ActuatorNext]_vars

\* The host with whole frames arriving: requests, their handlers and timers.
Next ==
    \/ \E p \in Requests : SendFrame(p)
    \/ CloseStdin
    \/ (wire # << >> /\ Arrive(Len(wire)))
    \/ ProcessIncomingData
    \/ ReadChunk
    \/ StdinEnd
    \/ \E r \in 1..Len(calls) : HandlerResolves(r)
    \/ \E r \in 1..Len(calls) : HandlerRejects(r)
    \/ \E r \in 1..Len(calls) : TimerFires(r)

Spec == Init /\ [][Next]_vars

\* The host with its input arriving in arbitrary chunks, while the handlers
\* of the requests it accepts are still running.
FramerNext ==
    \/ \E p \in Payloads : SendFrame(p)
    \/ \E n \in {maxMessageSize, maxMessageSize + 1} : SendBigPrefix(n)
    \/ CloseStdin
    \/ \E k \in 1..Len(wire) : Arrive(k)
    \/ ProcessIncomingData
    \/ ReadChunk
    \/ ReadThrows
    \/ StdinEnd

FramerSpec == Init /\ [][FramerNext]_vars

\* The same host, with what Node's event loop guarantees: a started timer
\* fires, and the synchronous read loop runs to its end.
SomeTimerFires == \E r \in 1..Len(calls) : TimerFires(r)

FairSpec ==
    /\ Spec
    /\ WF_vars(ReadChunk)
    /\ WF_vars(SomeTimerFires)

(* ===================== the dispatcher (C1 - C4) ====================== *)
Calls == 1..Len(calls)
Accepted == {r \in Calls : calls[r].accepted}

\* the responses written for call r, in order
ResponsesOf(out, r) == SelectSeq(out, LAMBDA x : x.req = r)

\* C1: for every request validateAndRespond accepted, at most one response
\* answering it is ever written, whatever the order of handler success,
\* handler failure and the timer (which stays armed after the handler ends).
C1_AtMostOneResponse ==
    \A r \in Accepted : Len(ResponsesOf(stdout, r)) <= 1

\* C1 happens: the handler has resolved and the timer has fired too, and one
\* response stands.
C1_Witness ==
    \E r \in Accepted :
        /\ calls[r].handler = "resolved"
        /\ calls[r].timer = "fired"
        /\ Len(ResponsesOf(stdout, r)) = 1

\* The response the first settlement of call r calls for
ExpectedResponse(r) ==
    CASE calls[r].first = "resolved" ->
             createSuccessResponse(calls[r].message.id, calls[r].result, r)
      [] calls[r].first = "rejected" ->
             createErrorResponse(calls[r].message.id, calls[r].result, r)
      [] OTHER ->
             createErrorResponse(calls[r].message.id, "Request timeout", r)

\* C2: the one response of an accepted request is the one of whichever
\* settled first: success with the handler's data, failure with the
\* handler's error, or "Request timeout"; a handler result that comes after
\* the timeout leaves the output as it was.
C2_FirstEventDecides ==
    \A r \in Accepted :
        IF calls[r].first = ""
        THEN ResponsesOf(stdout, r) = << >>
        ELSE ResponsesOf(stdout, r) = << ExpectedResponse(r) >>

\* C2 happens: the timer fired first and the handler resolved afterwards.
C2_Witness ==
    \E r \in Accepted :
        /\ calls[r].first = "timer"
        /\ calls[r].handler = "resolved"
        /\ ResponsesOf(stdout, r) =
               << createErrorResponse(calls[r].message.id, "Request timeout", r) >>

\* The delay the timer of call r is to have: the request's own timeout, or
\* the default of 5000 ms when it gives none.
TimeoutAsked(r) ==
    IF calls[r].message.timeout.t = "number" /\ calls[r].message.timeout.n > 0
    THEN calls[r].message.timeout.n
    ELSE 5000

Answered(r) == ResponsesOf(stdout, r) # << >>

C4_Independent ==
    /\ [](\A i \in 1..Len(stdout) :
              stdout[i].req # 0 => stdout[i].requestId = calls[stdout[i].req].message.id)
    /\ [][\A r \in Calls :
              calls'[r] # calls[r] =>
                  \A q \in Calls \ {r} :
                      /\ calls'[q] = calls[q]
                      /\ ResponsesOf(stdout', q) = ResponsesOf(stdout, q)]_vars

\* C4 happens: of two requests outstanding together, the later one timed
\* out and the earlier one was answered with its data after that.
C4_Witness ==
    \E q, r \in Accepted :
        /\ q < r
        /\ calls[q].message.id # calls[r].message.id
        /\ calls[r].first = "timer"
        /\ calls[q].first = "resolved"
        /\ \E i, j \in 1..Len(stdout) :
               i < j /\ stdout[i].req = r /\ stdout[j].req = q

(* ======================== the framer (C5 - C10) ====================== *)
Delivered == 1..Len(delivered)

\* all that the peer wrote has been read by the framer
Drained == wire = << >> /\ stdinBuf = << >>

\* C5: the payloads of the frames the peer encoded (4-byte little-endian
\* length, then the payload) come out of the framer as they went in, each
\* once, wherever the chunk boundaries fall, the length prefix included.
C5_RoundTrip ==
    /\ \A i \in 1..Len(sent) :
           i <= Len(delivered) =>
               delivered[i].data = sent[i].payload /\ delivered[i].at = sent[i].at
    /\ bigAt = -1 => Len(delivered) <= Len(sent)
    /\ Drained => Len(delivered) >= Len(sent)

\* C5 happens: one frame has come out whole and a chunk has ended inside the
\* length prefix of the next.
C5_Witness ==
    /\ Len(sent) = 2 /\ Len(delivered) = 1
    /\ delivered[1].data = sent[1].payload /\ delivered[1].data # << >>
    /\ expectedLength = -1
    /\ Len(messageBuffer) \in 1..3

HasError(error) == \E i \in 1..Len(stdout) : stdout[i].error = error

\* C6: a length prefix over the maximum is reported as too large and no byte
\* of that frame's payload is ever handed over as a message or part of one;
\* a prefix equal to the maximum is accepted.
C6_OversizedNeverDelivered ==
    /\ (bigLen > maxMessageSize /\ consumed >= bigAt) => HasError("Message too large")
    /\ bigLen > maxMessageSize =>
           \A i \in Delivered : delivered[i].data = << >> \/ delivered[i].at < bigAt
    /\ (bigLen = maxMessageSize /\ consumed >= bigAt) =>
           ~HasError("Message too large") /\ expectedLength = maxMessageSize

\* C7: a frame is handed over only when all of its payload has been read,
\* whole (never a prefix of the payload), and frames are handed over in the
\* order of their bytes, none skipped, several in one chunk included.
C7_WholeFramesInOrder ==
    /\ \A i \in Delivered :
           /\ Len(delivered[i].data) = delivered[i].length
           /\ delivered[i].at + delivered[i].length <= Len(stream) - Len(wire) - Len(stdinBuf)
           /\ delivered[i].data =
                  SubSeq(stream, delivered[i].at + 1, delivered[i].at + delivered[i].length)
           /\ readUInt32LE(SubSeq(stream, delivered[i].at - 3, delivered[i].at)) =
                  delivered[i].length
    /\ \A i \in 1..(Len(delivered) - 1) :
           delivered[i].at + delivered[i].length + 4 <= delivered[i + 1].at
    /\ bigAt = -1 =>
           \A i \in Delivered : i <= Len(sent) /\ delivered[i].at = sent[i].at

\* C7 happens: one read has handed over two frames that came back to back.
C7_Witness ==
    /\ batch = 2
    /\ Len(delivered) = 2
    /\ delivered[1].data # << >>
    /\ delivered[1].data = sent[1].payload /\ delivered[2].data = sent[2].payload

\* C8: a processIncomingData call made while another is in its loop leaves
\* the buffers alone, so that every byte of the stream is in exactly one
\* place (framed, in messageBuffer, in stdin, or on its way) and bytes left
\* in stdin have a 'readable' coming; isProcessing is set exactly while a
\* call is in progress, also after a call that ended with an exception.
C8_ReentrancyGuard ==
    /\ isProcessing = (pc = "loop")
    /\ Drop(stream, consumed) = messageBuffer \o stdinBuf \o wire
    /\ \A i \in Delivered : delivered[i].at + delivered[i].length <= consumed
    /\ (pc = "idle" /\ stdinBuf # << >> /\ throws = 0) => readablePending

\* C8 happens: a call was made during another, a call ended with an
\* exception, and the input has been framed and nobody is processing.
C8_Witness ==
    /\ reentered /\ throws > 0
    /\ pc = "idle" /\ ~isProcessing
    /\ Drained /\ Len(delivered) >= 1

\* C9: at the end of the input stream 'disconnect' is emitted and the host
\* exits, after all input was read; nothing of an incomplete last frame has
\* been handed over, and nothing is handed over or written afterwards.
C9_EndOfInput ==
    /\ [](disconnected <=> ~running)
    /\ [](~running => closed /\ Drained)
    /\ [](bigLen = maxMessageSize =>
              \A i \in Delivered : delivered[i].at + delivered[i].length <= bigAt - 4)
    /\ [][~running => delivered' = delivered /\ stdout' = stdout]_vars

\* C9 happens: the host has exited with part of a frame in its buffer.
C9_Witness ==
    /\ ~running /\ disconnected
    /\ expectedLength = maxMessageSize
    /\ messageBuffer # << >>

NotJSON(d) == ParseJSON(d.data).kind # "object"

\* C10: every complete frame whose payload is no JSON request (the empty
\* payload included) is answered by one error response without requestId,
\* never reaches the message handler, and the frames after it are handed
\* over all the same.
C10_ParseErrors ==
    LET bad == {i \in Delivered : NotJSON(delivered[i])}
        parseErrors == {i \in 1..Len(stdout) : stdout[i].error = "Failed to parse message"}
    IN /\ Cardinality(parseErrors) = Cardinality(bad)
       /\ \A i \in parseErrors :
              ~stdout[i].success /\ stdout[i].requestId = Undef /\ stdout[i].req = 0
       /\ Len(calls) = Len(delivered) - Cardinality(bad)
       /\ \A i \in 1..(Len(sent) - 1) :
              (Drained /\ ParseJSON(sent[i].payload).kind # "object") =>
                  Len(delivered) > i

\* C10 happens: an empty payload was answered with the parse error and the
\* request after it reached the handler.
C10_Witness ==
    /\ Len(delivered) = 2
    /\ delivered[1].data = << >>
    /\ ~NotJSON(delivered[2])
    /\ Len(calls) = 1
    /\ stdout # << >>
    /\ stdout[1] = createErrorResponse(Undef, "Failed to parse message", 0)

(* ===================== the validator (C11 - C14) ===================== *)
Rejected == {r \in Calls : validateRequest(calls[r].message) # ""}

\* C11: for a request that fails validation the handler is never started,
\* no timer is started, and exactly one response, the validation error, is
\* written, within validateAndRespond itself (it is there as soon as the
\* call is).
C11_RejectedSynchronously ==
    \A r \in Rejected :
        /\ ~calls[r].accepted
        /\ calls[r].handler = "none" /\ calls[r].timer = "none" /\ calls[r].race = "none"
        /\ Len(ResponsesOf(stdout, r)) = 1
        /\ ~ResponsesOf(stdout, r)[1].success
        /\ ResponsesOf(stdout, r)[1].error = validateRequest(calls[r].message)

\* C11 happens: a request with volume 150 was rejected while an accepted
\* request before it has been answered by its handler.
C11_Witness ==
    \E r \in Rejected, q \in Accepted :
        /\ q < r
        /\ calls[r].message.volume = Num(150)
        /\ calls[q].handler = "resolved"
        /\ Len(stdout) = 2

\* C12: the error response of a request that fails validation carries the
\* request's id when the incoming message had one, and no requestId when it
\* had none.
C12_RejectionCarriesIncomingId ==
    \A r \in Rejected :
        \A i \in 1..Len(stdout) :
            stdout[i].req = r =>
                stdout[i].requestId =
                    IF calls[r].hadId THEN calls[r].message.id ELSE Undef

Checked == verdict # "unchecked"

\* The request at hand, as parsed
Message == ParseJSON(request).obj

\* C13: validateRequest accepts a request exactly when its action is known,
\* the fields required for the action are there, volume (if there) is a
\* number in [0,100], muted (if there) a boolean and sourceId (if there) a
\* string that is not blank; a set-volume request without volume, with
\* volume 150 or with sourceId "" is rejected.
C13_AcceptsExactly ==
    Checked =>
        /\ (verdict = "") <=>
               /\ Message.action.t = "string"
               /\ Message.action.s \in
                      {"getAudioSources", "setTabVolume", "getVolume", "setMute",
                       "getBrowserProcesses"}
               /\ Message.action.s \in {"setTabVolume", "getVolume", "setMute"} =>
                      Message.sourceId # Undef
               /\ Message.action.s = "setTabVolume" => Message.volume # Undef
               /\ Message.action.s = "setMute" => Message.muted # Undef
               /\ Message.volume # Undef =>
                      Message.volume.t = "number" /\ Message.volume.n \in 0..100
               /\ Message.muted # Undef => Message.muted.t = "boolean"
               /\ Message.sourceId # Undef =>
                      Message.sourceId.t = "string" /\ Message.sourceId.s \notin {"", " "}
        /\ ( /\ Message.action.s \in {"setTabVolume", "setVolume"}
             /\ \/ Message.volume = Undef
                \/ Message.volume = Num(150)
                \/ Message.sourceId = Str("") ) => verdict # ""

\* C13 happens: a setTabVolume request for "t1" is accepted with volume 100.
C13_Witness ==
    /\ Checked /\ verdict = ""
    /\ Message.action = Str("setTabVolume")
    /\ Message.sourceId = Str("t1")
    /\ Message.volume = Num(100)
    /\ outcomes # {}

\* C14: a setVolume request with sourceId and volume, and a setMode request
\* with mode, are recognized: they pass validation and their handler applies
\* them, instead of their being answered with an unknown-action error.
C14_SetVolumeSetModeRecognized ==
    ( /\ Checked
      /\ \/ /\ Message.action = Str("setVolume")
            /\ Message.sourceId = Str("t1")
            /\ Message.volume \in {Num(0), Num(50), Num(100)}
            /\ Message.muted = Undef
         \/ /\ Message.action = Str("setMode")
            /\ Message.mode = Str("linked")
            /\ Message.sourceId = Undef /\ Message.volume = Undef /\ Message.muted = Undef )
    => /\ verdict = ""
       /\ outcomes # {} => \E o \in outcomes : o.ok

(* =============== the background registry (C15 - C17) ================= *)
\* C15: a started event for a tab the registry already holds a source for
\* leaves the source's volume and muted values as they were, whatever
\* setVolume and setMute messages set them to, and refreshes its title and
\* its isPlaying flag.
C15_StartedKeepsLevels ==
    (lastEvent.event = "started" /\ lastEvent.before # {}) =>
        \E old \in lastEvent.before, new \in Tracked(Background, lastEvent.tabId) :
            /\ new.tabId = old.tabId
            /\ new.volume = old.volume
            /\ new.muted = old.muted
            /\ new.title = (IF lastEvent.title # "" THEN lastEvent.title ELSE "Unknown Tab")
            /\ new.isPlaying

\* A started event has come for a tab whose source had been set to volume 0
\* and muted, under another title.
C15_Witness ==
    /\ lastEvent.event = "started"
    /\ \E old \in lastEvent.before, new \in Tracked(Background, lastEvent.tabId) :
          /\ old.volume = 0
          /\ old.muted
          /\ old.title # new.title

\* C16: a stopped event leaves the registry without a source for its tab
\* and the process maps without an entry for it, and the next started event
\* of a tab whose latest lifecycle event was a stopped event makes a source
\* with volume 100 and muted = FALSE.
C16_StoppedThenStartedIsNew ==
    /\ lastEvent.event = "stopped" =>
          /\ Tracked(Background, lastEvent.tabId) = {}
          /\ lastEvent.tabId \notin DOMAIN tabToProcessMap
    /\ (lastEvent.event = "started" /\ lastEvent.was = "stopped") =>
          \E new \in Tracked(Background, lastEvent.tabId) :
              new.volume = 100 /\ ~new.muted

\* C17: the volume of every source the registry holds is an integer
\* between 0 and 100.
C17_VolumesInRange ==
    \A i \in 1..Len(audioSources) : heap[audioSources[i].ref].volume \in 0..100

(* =============== the volume modes (C18 - C20) ======================== *)
\* The latest call was setVolume on a source the controller holds, in mode
SetVolumeIn(mode) ==
    /\ last.op = "setVolume"
    /\ last.before.mode = mode
    /\ last.tabId \in DOMAIN last.before.sources

\* C18: in independent mode setVolume on source t sets t's volume to the
\* requested value clamped to [0,100] and leaves t's muted flag and the
\* volume and muted flag of every other source as they were.
C18_IndependentIsolated ==
    SetVolumeIn("independent") =>
        /\ DOMAIN controller.sources = DOMAIN last.before.sources
        /\ controller.sources[last.tabId].volume =
               (IF last.volume < 0 THEN 0 ELSE IF last.volume > 100 THEN 100 ELSE last.volume)
        /\ controller.sources[last.tabId].muted = last.before.sources[last.tabId].muted
        /\ \A t \in DOMAIN controller.sources \ {last.tabId} :
               controller.sources[t] = last.before.sources[t]

\* C18 happens: with two sources held, one was asked to go to 150 and went
\* to 100, the other one staying muted at 27.
C18_Witness ==
    /\ SetVolumeIn("independent")
    /\ last.tabId = 1 /\ last.volume = 150
    /\ DOMAIN controller.sources = {1, 2}
    /\ last.before.sources[1].volume = 50
    /\ controller.sources[1].volume = 100
    /\ controller.sources[2].volume = 27 /\ controller.sources[2].muted

\* C19: in independent mode, calling setVolume(id, v) again with the same v
\* leaves the controller exactly as the first call left it.
C19_IndependentIdempotent ==
    (last.op = "setVolume" /\ last.before.mode = "independent") =>
        setVolume(controller, last.tabId, last.volume) = controller

\* C19 happens: setVolume(1, 13) has changed source 1 from 50 to 13.
C19_Witness ==
    /\ SetVolumeIn("independent")
    /\ last.tabId = 1 /\ last.volume = 13
    /\ last.before.sources[1].volume = 50
    /\ controller.sources[1].volume = 13
    /\ DOMAIN controller.sources = {1, 2}

\* C20: in linked mode setVolume on target t (old volume oldV, new volume
\* newV after clamping) sets every source to newV when oldV = 0, and else
\* every source s, t included, to clamp(round(s.volume * newV / oldV)),
\* from the volumes before the call; [50, 100] with the first set to 100
\* becomes [100, 100].
C20_LinkedRatio ==
    SetVolumeIn("linked") =>
        LET oldV == last.before.sources[last.tabId].volume
            newV == IF last.volume < 0 THEN 0 ELSE IF last.volume > 100 THEN 100
                    ELSE last.volume
        IN /\ DOMAIN controller.sources = DOMAIN last.before.sources
           /\ \A t \in DOMAIN controller.sources :
                  controller.sources[t].volume =
                      IF oldV = 0 THEN newV
                      ELSE Clamp(MathRound(last.before.sources[t].volume * newV, oldV))


(* ============ the volume modes, held sources (C21 - C26) ============= *)
\* The requested volume within [0,100]
Requested == IF last.volume < 0 THEN 0 ELSE IF last.volume > 100 THEN 100 ELSE last.volume

\* What is left of 100 * n after newV, split evenly over the n - 1 other
\* sources, rounded and kept within [0,100]
EvenShare(n, newV) ==
    LET rounded == (2 * (100 * n - newV) + (n - 1)) \div (2 * (n - 1))
    IN IF rounded < 0 THEN 0 ELSE IF rounded > 100 THEN 100 ELSE rounded

C22_InverseAloneIsIndependent ==
    (SetVolumeIn("inverse") /\ Cardinality(DOMAIN last.before.sources) < 2) =>
        controller.sources[last.tabId].volume = Requested

\* C23: in inverse mode a setVolume that raises the target's volume leaves
\* no other source with a higher volume than it had before the call.
C23_InverseOthersGoDown ==
    (/\ SetVolumeIn("inverse")
     /\ controller.sources[last.tabId].volume > last.before.sources[last.tabId].volume) =>
        \A t \in DOMAIN last.before.sources \ {last.tabId} :
            controller.sources[t].volume <= last.before.sources[t].volume

\* The rounded average of the volumes held before the latest call
AverageBefore ==
    LET held == DOMAIN last.before.sources
        n == Cardinality(held)
    IN (2 * SumVolumes(last.before.sources, held) + n) \div (2 * n)

\* C24: setMode normalises on entry: into linked every source gets the
\* rounded average of the volumes held, into inverse every source gets
\* round(100 / n), into independent no volume changes; no muted flag is
\* changed by a mode switch.
C24_ModeEntry ==
    last.op = "setMode" =>
        /\ DOMAIN controller.sources = DOMAIN last.before.sources
        /\ \A t \in DOMAIN controller.sources :
               /\ controller.sources[t].muted = last.before.sources[t].muted
               /\ controller.mode = "independent" =>
                      controller.sources[t].volume = last.before.sources[t].volume
               /\ controller.mode = "linked" =>
                      controller.sources[t].volume = AverageBefore
               /\ controller.mode = "inverse" =>
                      controller.sources[t].volume =
                          (200 + Cardinality(DOMAIN controller.sources))
                              \div (2 * Cardinality(DOMAIN controller.sources))

\* C24 happens: linked was entered with a muted source at 27 and a source at
\* 50; both are at 39 now, the first one still muted.
C24_Witness ==
    /\ last.op = "setMode"
    /\ last.before.mode = "independent" /\ controller.mode = "linked"
    /\ DOMAIN controller.sources = {1, 2}
    /\ last.before.sources[1].volume = 27 /\ last.before.sources[1].muted
    /\ last.before.sources[2].volume = 50
    /\ controller.sources[1].volume = 39 /\ controller.sources[1].muted
    /\ controller.sources[2].volume = 39

\* C25: the mode is independent at first, is always one of independent,
\* linked and inverse, and differs from what it was before the latest step
\* on the controller only if that step was setMode: neither the settings
\* load that the constructor started nor a volume change alters it.
C25_ModeOnlyBySetMode ==
    /\ controller.mode \in {"independent", "linked", "inverse"}
    /\ last.op = "new" => controller.mode = "independent"
    /\ controller.mode # last.before.mode => last.op = "setMode"

\* C26: every source whose volume or muted flag the latest call on the
\* controller changed has had the callback given to setCallbacks called
\* with its id and the new value; after a linked setVolume over two sources
\* there is a volume notification for each of them.
C26_ChangesNotify ==
    \A t \in DOMAIN controller.sources \cap DOMAIN last.before.sources :
        /\ controller.sources[t].volume # last.before.sources[t].volume =>
               \E i \in DOMAIN notifications :
                   notifications[i] = [callback |-> "volume", tabId |-> t,
                                       value |-> controller.sources[t].volume]
        /\ controller.sources[t].muted # last.before.sources[t].muted =>
               \E i \in DOMAIN notifications :
                   notifications[i] = [callback |-> "mute", tabId |-> t,
                                       value |-> controller.sources[t].muted]

(* ================== the content script fails (C27) =================== *)
\* C27: when the message that carries a commanded volume or mute to the
\* content script fails, the registry keeps what it held, the commanded
\* value included: the failure restores no earlier volume or muted value.
C27_FailureKeepsCommanded ==
    lastEvent.event = "failed" =>
        Tracked(Background, lastEvent.tabId) = lastEvent.before

\* C27 happens: tab 1 was commanded to volume 0 and muted, a message to its
\* content script has failed, and the registry holds it at 0, muted.
C27_Witness ==
    /\ lastEvent.event = "failed" /\ lastEvent.tabId = 1
    /\ \E source \in Tracked(Background, 1) : source.volume = 0 /\ source.muted

(* ==================== errors and the host (C28) ===================== *)
\* C28: no error ends the host, which goes on framing and answering the
\* well-formed frames that follow: the host has exited only if the input
\* was closed and read to its end, and whenever the running host has read
\* all that was written and left its read loop, every frame written has
\* been handed over, those after a length prefix over the maximum included
\* (after a prefix equal to the maximum the host awaits that payload).
C28_ErrorsNotFatal ==
    /\ ~running => closed /\ Drained
    /\ (running /\ Drained /\ pc = "idle" /\ bigLen # maxMessageSize) =>
           Len(delivered) = nSent - (IF bigAt = -1 THEN 0 ELSE 1)

(* ==================== the error handler (C29 - C30) ================== *)
\* The outcomes of the invocations before the latest one were all failures
EarlierFailed ==
    \A i \in 1..(Len(retry.outcomes) - 1) : retry.outcomes[i] \in OperationErrors

\* C29: retry invokes the operation until it first succeeds or maxAttempts
\* invocations have failed: it returns the result of the first success,
\* having made exactly the invocations up to it, and otherwise rejects with
\* the error of the last invocation after exactly maxAttempts invocations;
\* it never makes more than maxAttempts.
C29_RetryAttempts ==
    /\ retry.invocations <= retry.maxAttempts
    /\ Len(retry.outcomes) <= retry.invocations
    /\ retry.phase = "returned" =>
           /\ retry.invocations = Len(retry.outcomes)
           /\ EarlierFailed
           /\ retry.outcomes[Len(retry.outcomes)] = "ok"
           /\ retry.settled = "success"
    /\ retry.phase = "rejected" =>
           /\ retry.invocations = retry.maxAttempts
           /\ Len(retry.outcomes) = retry.maxAttempts
           /\ \A i \in 1..Len(retry.outcomes) : retry.outcomes[i] \in OperationErrors
           /\ retry.settled = retry.outcomes[Len(retry.outcomes)]
    /\ retry.phase \in {"awaiting", "sleeping"} =>
           /\ \A i \in 1..Len(retry.outcomes) : retry.outcomes[i] \in OperationErrors
           /\ retry.invocations =
                  Len(retry.outcomes) + (IF retry.phase = "awaiting" THEN 1 ELSE 0)

\* C29 happens: a retry of three attempts has rejected with the error of
\* its third invocation, which was not that of the first two.
C29_Witness ==
    /\ retry.phase = "rejected"
    /\ retry.maxAttempts = 3 /\ retry.invocations = 3
    /\ retry.outcomes = << "E1", "E1", "E2" >>
    /\ retry.settled = "E2"

\* The counts getRecentErrors is asked for
RecentCounts == {0, 1, 10, 50, 51}

\* The k most recent of the errors handled since the last clearErrors, the
\* latest first
MostRecent(k) == [i \in 1..k |-> handled[Len(handled) + 1 - i]]

\* The least of three numbers
Least(a, b, c) ==
    IF a <= b /\ a <= c THEN a ELSE IF b <= c THEN b ELSE c

\* C30: the history lists the handled errors most recent first and never
\* holds more than 50: getRecentErrors(k) returns the min(k, 50, number
\* handled since the last clear) most recent errors, the latest first.
C30_History ==
    /\ Len(errors) <= 50
    /\ errors = MostRecent(Least(50, 50, Len(handled)))
    /\ \A k \in RecentCounts :
           getRecentErrors(errors, k) = MostRecent(Least(k, 50, Len(handled)))

\* C30 happens: 51 errors were handled since the last clear, the latest by
\* a retry that failed, and the history holds the latest 50 of them, the
\* 51st first.
C30_Witness ==
    /\ Len(handled) = 51
    /\ Len(errors) = 50
    /\ errors[1] = handled[51] /\ errors[50] = handled[2]
    /\ retry.phase = "rejected"

C40_LinkedKeepsOrder ==
    SetVolumeIn("linked") =>
        \A a, b \in DOMAIN last.before.sources :
            last.before.sources[a].volume <= last.before.sources[b].volume =>
                controller.sources[a].volume <= controller.sources[b].volume

\* C40 happens: sources at 100, 6 and 27 were scaled by 80 / 100 to 80, 5
\* and 22.
C40_Witness ==
    /\ SetVolumeIn("linked")
    /\ last.tabId = 1 /\ last.volume = 80
    /\ DOMAIN last.before.sources = {1, 2, 3}
    /\ last.before.sources[1].volume = 100
    /\ last.before.sources[2].volume = 6 /\ last.before.sources[3].volume = 27
    /\ controller.sources[1].volume = 80
    /\ controller.sources[2].volume = 5 /\ controller.sources[3].volume = 22

\* C40 happens from 0 too: the target was at 0 and all sources went to 90.
C40_FromZero ==
    /\ SetVolumeIn("linked")
    /\ last.before.sources[last.tabId].volume = 0 /\ last.volume = 90
    /\ \A t \in DOMAIN controller.sources : controller.sources[t].volume = 90
    /\ Cardinality(DOMAIN controller.sources) = 3

(* ============ removed sources and suspended shortcuts (C37) ========== *)
\* C37: a source removed from the registry (its tab stopped playing, was
\* closed or navigated) while a shortcut is suspended inside its loop over
\* the sources is not put back by the shortcut's later iterations: the
\* registry holds no source of a tab whose latest lifecycle event is a
\* removal.
C37_RemovedStaysRemoved ==
    \A t \in Tabs :
        lifecycle[t] \in {"stopped", "closed", "navigated"} =>
            ~RegistryHas(audioSources, t)

(* ================== wrapOperation's failures (C39) =================== *)
\* C39: a retryable operation run through wrapOperation that has failed on
\* every attempt has had exactly one entry added to the error history for
\* that failure.
C39_WrappedFailureHandledOnce ==
    (retry.wrapped /\ retry.phase = "rejected") => retry.reported = 1

(* ===================== the inactivity sweep (C31) ==================== *)
\* C31: after a cleanup every source that was last seen more than 60 s
\* before it has been removed, and every source seen within the 60 s is
\* still there, as it was; the cleanup adds no source.
C31_SweepRemovesInactive ==
    managerLast.event = "cleanup" =>
        /\ DOMAIN managerSources \subseteq DOMAIN managerLast.before
        /\ \A t \in DOMAIN managerLast.before :
               IF clock - managerLast.before[t].lastSeen > 60000
               THEN t \notin DOMAIN managerSources
               ELSE /\ t \in DOMAIN managerSources
                    /\ managerSources[t] = managerLast.before[t]

\* C31 happens: at 60001 ms a cleanup has removed the source of tab 1, seen
\* at 0, and kept the source of tab 2, seen at 1.
C31_Witness ==
    /\ managerLast.event = "cleanup"
    /\ clock = 60001
    /\ DOMAIN managerLast.before = {1, 2}
    /\ managerLast.before[1].lastSeen = 0
    /\ DOMAIN managerSources = {2}
    /\ managerSources[2].lastSeen = 1

(* ===================== the mute-all shortcut (C32) =================== *)
\* C32: once the mute-all shortcut has been handled, every source of the
\* background's registry has its muted flag equal to the controller's
\* master-mute flag.
C32_MuteAllReachesRegistry ==
    answer.action = "mute-all" =>
        \A t \in DOMAIN Sources(Background) :
            Sources(Background)[t].muted = volumeController.settings.muteAll

(* ========================= unknown sources (C33) ===================== *)
\* C33: a setVolume or setMute message that names a tab the registry has
\* no source for is answered with the error 'Tab not found', and leaves
\* the registry with every source's volume and muted flag, the mode and
\* the controller as they were.
C33_UnknownSourceRefused ==
    (/\ answer.action \in {"setVolume", "setMute"}
     /\ answer.tabId \notin DOMAIN answer.before.sources) =>
        /\ answer.response = [success |-> FALSE, error |-> "Tab not found"]
        /\ Found = answer.before

\* C33 happens: with tab 1 tracked, a message for tab 2 has been refused.
C33_Witness ==
    /\ answer.action \in {"setVolume", "setMute"}
    /\ answer.tabId = 2
    /\ DOMAIN answer.before.sources = {1}
    /\ ~answer.response.success

(* =================== the background's two modes (C35) ================ *)
\* C35: currentVolumeMode and the mode of the background's
\* VolumeModeController are equal in every state.
C35_ModesAgree ==
    currentVolumeMode = volumeController.mode

(* ==================== the popup's set of sources (C34) =============== *)
\* C34: once the popup has handled an update of the audio sources, its
\* VolumeModeController holds a source for exactly the tabs of the latest
\* update: a source that has stopped is held no more.
C34_ControllerHoldsTheUpdate ==
    popupUpdate # << >> => DOMAIN controller.sources = popupUpdate[1]

(* ============== commands before the shortcuts are loaded (C38) ======= *)
\* C38: a command for a default shortcut, all of which are enabled,
\* delivered to a ShortcutsManager whose load of the stored shortcuts has
\* not finished (as when the command listener has just made the manager)
\* runs the shortcut's action handler.
C38_EarlyCommandRuns ==
    \A i \in 1..Len(commands) :
        (commands[i].command \in defaultShortcuts /\ commands[i].loading) =>
            commands[i].ran

====
